---- MODULE Spec2Model ----
(***************************************************************************)
(* Verification model of the ad-report visualiser:                         *)
(*   - DataProcessor (data_processor.py): load, date detection, column     *)
(*     classification, metric semantics, filtering, aggregation;           *)
(*   - LineChart._split_into_continuous_segments (line_chart.py);          *)
(*   - the Streamlit pass of main() (app.py): per-pass DataProcessor,      *)
(*     manual "Convert to Date", metric overrides kept in session state.   *)
(*                                                                         *)
(* Text is modelled as a sequence of one-character strings, so that        *)
(* lower-casing, substring tests, the date-shape regular expressions and   *)
(* date parsing are computed character by character.                       *)
(***************************************************************************)
EXTENDS Integers, Sequences, FiniteSets, TLC

VARIABLES
    data,               \* DataProcessor.data (None before the first load)
    metrics,            \* DataProcessor.metrics
    dimensions,         \* DataProcessor.dimensions
    date_columns,       \* DataProcessor.date_columns
    metric_types,       \* DataProcessor.metric_types
    aggregation_types,  \* DataProcessor.aggregation_types
    input,              \* the argument(s) of the operation under study
    out,                \* what the last operation returned
    hist,               \* history of the Table Model: datasets loaded so far
    pc,                 \* position of the Streamlit script inside a pass
    uploaded_file,      \* the file held by st.file_uploader
    session,            \* st.session_state: metric_overrides and widget values
    user                \* what the user chose last, per metric, and on which upload

vars == <<data, metrics, dimensions, date_columns, metric_types,
          aggregation_types, input, out, hist, pc, uploaded_file, session, user>>

tmVars == <<data, metrics, dimensions, date_columns, metric_types, aggregation_types>>
appVars == <<pc, uploaded_file, session, user>>

-----------------------------------------------------------------------------
(* Bounds of the model *)

MaxTokens == 2      \* a metric name is made of at most this many name tokens
MaxLoads == 3       \* load_data calls on one DataProcessor object

-----------------------------------------------------------------------------
(* Characters and text *)

Digits == <<"0", "1", "2", "3", "4", "5", "6", "7", "8", "9">>
LowerLetters == <<"a", "b", "c", "d", "e", "f", "g", "h", "i", "j", "k", "l", "m",
                  "n", "o", "p", "q", "r", "s", "t", "u", "v", "w", "x", "y", "z">>
UpperLetters == <<"A", "B", "C", "D", "E", "F", "G", "H", "I", "J", "K", "L", "M",
                  "N", "O", "P", "Q", "R", "S", "T", "U", "V", "W", "X", "Y", "Z">>

IndexOf(seq, c) == CHOOSE i \in 1..Len(seq) : seq[i] = c
IsIn(seq, c) == \E i \in 1..Len(seq) : seq[i] = c

IsDigit(c) == IsIn(Digits, c)
IsAlpha(c) == IsIn(LowerLetters, c) \/ IsIn(UpperLetters, c)
IsSpace(c) == c = " "
DigitVal(c) == IndexOf(Digits, c) - 1

\* str.lower() on one character
LowerChar(c) == IF IsIn(UpperLetters, c) THEN LowerLetters[IndexOf(UpperLetters, c)] ELSE c

\* str.lower()
Lower(s) == [i \in 1..Len(s) |-> LowerChar(s[i])]

\* pattern in s (Python substring test)
Contains(s, p) ==
    \E i \in 0..(Len(s) - Len(p)) : \A j \in 1..Len(p) : s[i + j] = p[j]

\* any(pattern in s for pattern in patterns)
ContainsAny(s, patterns) == \E k \in 1..Len(patterns) : Contains(s, patterns[k])

\* s.endswith(p)
EndsWith(s, p) ==
    /\ Len(p) <= Len(s)
    /\ \A j \in 1..Len(p) : s[Len(s) - Len(p) + j] = p[j]

RECURSIVE Flatten(_)
Flatten(ss) == IF ss = <<>> THEN <<>> ELSE Head(ss) \o Flatten(Tail(ss))

-----------------------------------------------------------------------------
(* Cells, columns and tables (a pandas DataFrame)                          *)
(* A cell is a number, a text, a timestamp or the missing marker           *)
(* (NaN / NaT / None); a column has a dtype and its cells.                 *)

Num(v) == [k |-> "num", n |-> v, s |-> <<>>]
Txt(t) == [k |-> "txt", n |-> 0, s |-> t]
Dt(d) == [k |-> "dt", n |-> d, s |-> <<>>]
NA == [k |-> "na", n |-> 0, s |-> <<>>]

Column(dtype, cells) == [dtype |-> dtype, cells |-> cells]

\* DataProcessor.data = None
NoData == [loaded |-> FALSE, cols |-> <<>>, col |-> <<>>]

Table(cols, col) == [loaded |-> TRUE, cols |-> cols, col |-> col]

ColSet(t) == {t.cols[i] : i \in 1..Len(t.cols)}
NumRows(t) == IF t.cols = <<>> THEN 0 ELSE Len(t.col[t.cols[1]].cells)

\* Series.notna().any()
NotnaAny(column) == \E i \in 1..Len(column.cells) : column.cells[i].k # "na"

\* pd.api.types.is_datetime64_any_dtype
IsDatetime(column) == column.dtype = "dt"

\* membership in select_dtypes(include=[np.number])
IsNumeric(column) == column.dtype = "num"

-----------------------------------------------------------------------------
(* Timestamps: a date is the ordinal y*372 + (m-1)*31 + (d-1), which       *)
(* orders dates as the calendar does.                                      *)

IsLeap(y) == (y % 4 = 0) /\ ((y % 100 # 0) \/ (y % 400 = 0))
DaysInMonth(y, m) ==
    IF m = 2 THEN (IF IsLeap(y) THEN 29 ELSE 28)
    ELSE IF m \in {4, 6, 9, 11} THEN 30 ELSE 31
ValidDate(y, m, d) == m \in 1..12 /\ d >= 1 /\ d <= DaysInMonth(y, m)
Ordinal(y, m, d) == y * 372 + (m - 1) * 31 + (d - 1)
YearOf(o) == o \div 372
MonthOf(o) == ((o % 372) \div 31) + 1
DayOf(o) == (o % 31) + 1

RECURSIVE ToNum(_)
ToNum(ds) == IF ds = <<>> THEN 0 ELSE ToNum(SubSeq(ds, 1, Len(ds) - 1)) * 10 + DigitVal(ds[Len(ds)])

RECURSIVE NatStr(_)
NatStr(n) == IF n < 10 THEN <<Digits[n + 1]>> ELSE NatStr(n \div 10) \o <<Digits[(n % 10) + 1]>>

Pad2(n) == IF n < 10 THEN <<"0">> \o NatStr(n) ELSE NatStr(n)

AllDigits(s) == s # <<>> /\ \A i \in 1..Len(s) : IsDigit(s[i])

\* s.split(sep)
RECURSIVE SplitOn(_, _)
SplitOn(s, sep) ==
    IF ~IsIn(s, sep) THEN <<s>>
    ELSE LET i == CHOOSE j \in 1..Len(s) : s[j] = sep /\ \A h \in 1..(j - 1) : s[h] # sep
         IN <<SubSeq(s, 1, i - 1)>> \o SplitOn(SubSeq(s, i + 1, Len(s)), sep)

\* str(value) of a cell of a column: Python prints an int as its digits, a
\* float (a numeric column holding a missing value) with ".0", a Timestamp
\* as "YYYY-MM-DD 00:00:00".
Str(cell, column) ==
    CASE cell.k = "txt" -> cell.s
      [] cell.k = "num" ->
            (IF cell.n < 0 THEN <<"-">> \o NatStr(0 - cell.n) ELSE NatStr(cell.n))
            \o (IF \E i \in 1..Len(column.cells) : column.cells[i].k = "na"
                THEN <<".", "0">> ELSE <<>>)
      [] cell.k = "dt" ->
            NatStr(YearOf(cell.n)) \o <<"-">> \o Pad2(MonthOf(cell.n)) \o <<"-">>
            \o Pad2(DayOf(cell.n)) \o <<" ", "0", "0", ":", "0", "0", ":", "0", "0">>
      [] OTHER -> <<"n", "a", "n">>

-----------------------------------------------------------------------------
(* Regular expressions of _convert_date_columns: a pattern is a sequence   *)
(* of elements, each a character class with a repetition range             *)
(* (hi = -1: unbounded); Search is re.search.                              *)

Elt(cls, lo, hi) == [cls |-> cls, lo |-> lo, hi |-> hi]

ClassOK(cls, c) ==
    CASE cls = "digit" -> IsDigit(c)
      [] cls = "alpha" -> IsAlpha(c)
      [] cls = "space" -> IsSpace(c)
      [] OTHER -> c = cls

RECURSIVE MatchFrom(_, _, _, _)
MatchFrom(pat, k, s, pos) ==
    IF k > Len(pat) THEN TRUE
    ELSE LET e == pat[k]
             rest == Len(s) - pos + 1
             maxn == IF e.hi < 0 \/ e.hi > rest THEN rest ELSE e.hi
         IN \E n \in e.lo..maxn :
               /\ \A j \in 0..(n - 1) : ClassOK(e.cls, s[pos + j])
               /\ MatchFrom(pat, k + 1, s, pos + n)

Search(pat, s) == \E pos \in 1..(Len(s) + 1) : MatchFrom(pat, 1, s, pos)

date_patterns == <<
    <<Elt("digit", 4, 4), Elt("-", 1, 1), Elt("digit", 1, 2), Elt("-", 1, 1), Elt("digit", 1, 2)>>,
    <<Elt("digit", 1, 2), Elt("-", 1, 1), Elt("digit", 1, 2), Elt("-", 1, 1), Elt("digit", 4, 4)>>,
    <<Elt("digit", 1, 2), Elt("/", 1, 1), Elt("digit", 1, 2), Elt("/", 1, 1), Elt("digit", 4, 4)>>,
    <<Elt("digit", 1, 2), Elt("/", 1, 1), Elt("digit", 1, 2), Elt("/", 1, 1), Elt("digit", 2, 2)>>,
    <<Elt("digit", 1, 2), Elt("space", 1, -1), Elt("alpha", 3, -1), Elt("space", 1, -1), Elt("digit", 4, 4)>>,
    <<Elt("alpha", 3, -1), Elt("space", 1, -1), Elt("digit", 1, 2), Elt(",", 0, 1), Elt("space", 1, -1), Elt("digit", 4, 4)>>
    >>

date_hints == <<
    <<"d", "a", "t", "e">>,  \* 'date'
    <<"d", "a", "y">>,  \* 'day'
    <<"t", "i", "m", "e">>,  \* 'time'
    <<"m", "o", "n", "t", "h">>,  \* 'month'
    <<"y", "e", "a", "r">>  \* 'year'
    >>

\* is_date_like = any(re.search(pattern, sample_value) for pattern in date_patterns)
IsDateLike(s) == \E k \in 1..Len(date_patterns) : Search(date_patterns[k], s)

-----------------------------------------------------------------------------
(* pd.to_datetime                                                          *)

\* A strptime format: the separator between the date fields, the fields in
\* order, and whether " %H:%M:%S" follows the date.
Fmt(sep, fields, time) == [sep |-> sep, fields |-> fields, time |-> time]

FieldOK(f, ds) ==
    /\ AllDigits(ds)
    /\ IF f = "Y" THEN Len(ds) = 4 ELSE Len(ds) \in 1..2

FieldIdx(fmt, f) == CHOOSE i \in 1..Len(fmt.fields) : fmt.fields[i] = f

\* the date part of a text under a format (NA when it does not match)
StrptimeDate(fmt, s) ==
    LET parts == SplitOn(s, fmt.sep)
    IN IF Len(parts) # Len(fmt.fields) THEN NA
       ELSE IF ~(\A i \in 1..Len(parts) : FieldOK(fmt.fields[i], parts[i])) THEN NA
       ELSE LET y == ToNum(parts[FieldIdx(fmt, "Y")])
                m == ToNum(parts[FieldIdx(fmt, "m")])
                d == IF IsIn(fmt.fields, "d") THEN ToNum(parts[FieldIdx(fmt, "d")]) ELSE 1
            IN IF ValidDate(y, m, d) /\ y >= 1 THEN Dt(Ordinal(y, m, d)) ELSE NA

ClockOK(t) ==
    LET parts == SplitOn(t, ":")
    IN /\ Len(parts) = 3
       /\ \A i \in 1..3 : AllDigits(parts[i]) /\ Len(parts[i]) \in 1..2
       /\ ToNum(parts[1]) < 24 /\ ToNum(parts[2]) < 60 /\ ToNum(parts[3]) < 62

\* datetime.strptime(s, format) with errors='coerce' (the time of day is not kept:
\* every timestamp of the model is at midnight or compared by its date)
Strptime(fmt, s) ==
    IF ~fmt.time THEN StrptimeDate(fmt, s)
    ELSE LET parts == SplitOn(s, " ")
         IN IF Len(parts) = 2 /\ ClockOK(parts[2]) THEN StrptimeDate(fmt, parts[1]) ELSE NA

\* format=None: let pandas infer
FmtNone == Fmt("", <<>>, FALSE)
IsNoFmt(fmt) == fmt.fields = <<>>

FmtYmd == Fmt("-", <<"Y", "m", "d">>, FALSE)
FmtYm == Fmt("-", <<"Y", "m">>, FALSE)
FmtMdySlash == Fmt("/", <<"m", "d", "Y">>, FALSE)

\* the generic parse of one text (no format given): ISO year-month-day, ISO
\* year-month (the first day of the month), or month/day/year
ParseDate(s) ==
    IF StrptimeDate(FmtYmd, s) # NA THEN StrptimeDate(FmtYmd, s)
    ELSE IF StrptimeDate(FmtYm, s) # NA THEN StrptimeDate(FmtYm, s)
    ELSE StrptimeDate(FmtMdySlash, s)

\* pd.to_datetime(series, format=fmt, errors='coerce'); FmtNone is the
\* generic parse.  A datetime column is returned as it is; a number is not a
\* date text under any format of the program and is coerced to missing when a
\* format is given, and read as nanoseconds since 1970-01-01 when none is.
ToDatetimeCell(cell, column, fmt) ==
    CASE cell.k = "na" -> NA
      [] cell.k = "dt" -> cell
      [] cell.k = "txt" -> (IF IsNoFmt(fmt) THEN ParseDate(cell.s) ELSE Strptime(fmt, cell.s))
      [] OTHER -> (IF IsNoFmt(fmt) THEN Dt(Ordinal(1970, 1, 1)) ELSE Strptime(fmt, Str(cell, column)))

ToDatetime(column, fmt) ==
    IF IsDatetime(column) THEN column
    ELSE Column("dt", [i \in 1..Len(column.cells) |-> ToDatetimeCell(column.cells[i], column, fmt)])

-----------------------------------------------------------------------------
(* DataProcessor._identify_metric_types: the pattern tables                *)

currency_patterns == <<
    <<"c", "o", "s", "t">>,  \* 'cost'
    <<"s", "p", "e", "n", "d">>,  \* 'spend'
    <<"r", "e", "v", "e", "n", "u", "e">>,  \* 'revenue'
    <<"b", "u", "d", "g", "e", "t">>,  \* 'budget'
    <<"v", "a", "l", "u", "e">>,  \* 'value'
    <<"c", "o", "n", "v", "e", "r", "s", "i", "o", "n", "_", "v", "a", "l", "u", "e">>,  \* 'conversion_value'
    <<"r", "o", "a", "s">>,  \* 'roas'
    <<"r", "a", "r">>  \* 'rar'
    >>

cost_per_patterns == <<
    <<"c", "p", "m">>,  \* 'cpm'
    <<"c", "p", "c">>,  \* 'cpc'
    <<"c", "p", "a">>,  \* 'cpa'
    <<"c", "p", "v">>,  \* 'cpv'
    <<"c", "p", "l">>,  \* 'cpl'
    <<"c", "p", "i">>,  \* 'cpi'
    <<"c", "o", "s", "t", "_", "p", "e", "r">>  \* 'cost_per'
    >>

percentage_patterns == <<
    <<"c", "v", "r">>,  \* 'cvr'
    <<"c", "t", "r">>,  \* 'ctr'
    <<"r", "a", "t", "e">>,  \* 'rate'
    <<"p", "e", "r", "c", "e", "n", "t">>,  \* 'percent'
    <<"%">>,  \* '%'
    <<"r", "a", "t", "i", "o">>,  \* 'ratio'
    <<"f", "r", "e", "q", "u", "e", "n", "c", "y">>,  \* 'frequency'
    <<"e", "n", "g", "a", "g", "e", "m", "e", "n", "t", "_", "r", "a", "t", "e">>,  \* 'engagement_rate'
    <<"c", "o", "n", "v", "e", "r", "s", "i", "o", "n", "_", "r", "a", "t", "e">>,  \* 'conversion_rate'
    <<"v", "i", "e", "w", "_", "r", "a", "t", "e">>,  \* 'view_rate'
    <<"c", "o", "m", "p", "l", "e", "t", "i", "o", "n", "_", "r", "a", "t", "e">>,  \* 'completion_rate'
    <<"b", "o", "u", "n", "c", "e", "_", "r", "a", "t", "e">>,  \* 'bounce_rate'
    <<"c", "l", "i", "c", "k", "_", "t", "h", "r", "o", "u", "g", "h", "_", "r", "a", "t", "e">>  \* 'click_through_rate'
    >>

count_patterns == <<
    <<"i", "m", "p", "r", "e", "s", "s", "i", "o", "n", "s">>,  \* 'impressions'
    <<"c", "l", "i", "c", "k", "s">>,  \* 'clicks'
    <<"v", "i", "e", "w", "s">>,  \* 'views'
    <<"r", "e", "a", "c", "h">>,  \* 'reach'
    <<"c", "o", "n", "v", "e", "r", "s", "i", "o", "n", "s">>,  \* 'conversions'
    <<"l", "e", "a", "d", "s">>,  \* 'leads'
    <<"p", "u", "r", "c", "h", "a", "s", "e", "s">>,  \* 'purchases'
    <<"i", "n", "s", "t", "a", "l", "l", "s">>,  \* 'installs'
    <<"d", "o", "w", "n", "l", "o", "a", "d", "s">>,  \* 'downloads'
    <<"s", "h", "a", "r", "e", "s">>,  \* 'shares'
    <<"l", "i", "k", "e", "s">>,  \* 'likes'
    <<"c", "o", "m", "m", "e", "n", "t", "s">>,  \* 'comments'
    <<"s", "e", "s", "s", "i", "o", "n", "s">>,  \* 'sessions'
    <<"u", "s", "e", "r", "s">>,  \* 'users'
    <<"v", "i", "s", "i", "t", "o", "r", "s">>,  \* 'visitors'
    <<"p", "a", "g", "e", "v", "i", "e", "w", "s">>,  \* 'pageviews'
    <<"o", "r", "d", "e", "r", "s">>,  \* 'orders'
    <<"t", "r", "a", "n", "s", "a", "c", "t", "i", "o", "n", "s">>  \* 'transactions'
    >>

time_patterns == <<
    <<"w", "a", "t", "c", "h", "_", "t", "i", "m", "e">>,  \* 'watch_time'
    <<"s", "e", "s", "s", "i", "o", "n", "_", "d", "u", "r", "a", "t", "i", "o", "n">>,  \* 'session_duration'
    <<"t", "i", "m", "e", "_", "o", "n", "_", "p", "a", "g", "e">>,  \* 'time_on_page'
    <<"d", "u", "r", "a", "t", "i", "o", "n">>,  \* 'duration'
    <<"a", "v", "g", "_", "t", "i", "m", "e">>,  \* 'avg_time'
    <<"a", "v", "e", "r", "a", "g", "e", "_", "t", "i", "m", "e">>  \* 'average_time'
    >>

\* variant of the chain with the monetary-total test ahead of the cost-per test
ClassifyMetric_CurrencyFirst(metric) ==
    LET metric_lower == Lower(metric)
    IN IF ContainsAny(metric_lower, currency_patterns) THEN [type |-> "currency", agg |-> "sum"]
       ELSE IF ContainsAny(metric_lower, cost_per_patterns) THEN [type |-> "currency", agg |-> "average"]
       ELSE IF ContainsAny(metric_lower, percentage_patterns) THEN [type |-> "percentage", agg |-> "average"]
       ELSE IF ContainsAny(metric_lower, count_patterns) THEN [type |-> "number", agg |-> "sum"]
       ELSE IF ContainsAny(metric_lower, time_patterns) THEN [type |-> "number", agg |-> "average"]
       ELSE [type |-> "number", agg |-> "sum"]

\* variant of the chain with the duration test ahead of the count test
ClassifyMetric_TimeFirst(metric) ==
    LET metric_lower == Lower(metric)
    IN IF ContainsAny(metric_lower, cost_per_patterns) THEN [type |-> "currency", agg |-> "average"]
       ELSE IF ContainsAny(metric_lower, currency_patterns) THEN [type |-> "currency", agg |-> "sum"]
       ELSE IF ContainsAny(metric_lower, percentage_patterns) THEN [type |-> "percentage", agg |-> "average"]
       ELSE IF ContainsAny(metric_lower, time_patterns) THEN [type |-> "number", agg |-> "average"]
       ELSE IF ContainsAny(metric_lower, count_patterns) THEN [type |-> "number", agg |-> "sum"]
       ELSE [type |-> "number", agg |-> "sum"]

\* the if / elif chain of _identify_metric_types for one metric name
ClassifyMetric(metric) ==
    LET metric_lower == Lower(metric)
    IN IF ContainsAny(metric_lower, cost_per_patterns) THEN [type |-> "currency", agg |-> "average"]
       ELSE IF ContainsAny(metric_lower, currency_patterns) THEN [type |-> "currency", agg |-> "sum"]
       ELSE IF ContainsAny(metric_lower, percentage_patterns) THEN [type |-> "percentage", agg |-> "average"]
       ELSE IF ContainsAny(metric_lower, count_patterns) THEN [type |-> "number", agg |-> "sum"]
       ELSE IF ContainsAny(metric_lower, time_patterns) THEN [type |-> "number", agg |-> "average"]
       ELSE [type |-> "number", agg |-> "sum"]

SeqToSet(q) == {q[i] : i \in 1..Len(q)}

\* dict update: the keys of upd get their new value, every other key stays
DictUpdate(d, upd) ==
    [k \in (DOMAIN d) \cup (DOMAIN upd) |-> IF k \in DOMAIN upd THEN upd[k] ELSE d[k]]

-----------------------------------------------------------------------------
(* DataProcessor: the steps of load_data                                   *)

\* variant that samples the last non-missing value of the column
ShouldConvert_LastValue(name, column) ==
    /\ ContainsAny(Lower(name), date_hints)
    /\ NotnaAny(column)
    /\ LET last == CHOOSE i \in 1..Len(column.cells) :
                      /\ column.cells[i].k # "na"
                      /\ \A h \in (i + 1)..Len(column.cells) : column.cells[h].k = "na"
       IN IsDateLike(Str(column.cells[last], column))

\* variant that converts every column with a hint in its name
ShouldConvert_NameOnly(name, column) ==
    /\ ContainsAny(Lower(name), date_hints)
    /\ NotnaAny(column)

\* one iteration of the loop of _convert_date_columns: the column after it,
\* and whether its name was appended to date_columns
ShouldConvert(name, column) ==
    /\ ContainsAny(Lower(name), date_hints)
    /\ NotnaAny(column)
    /\ LET first == CHOOSE i \in 1..Len(column.cells) :
                       /\ column.cells[i].k # "na"
                       /\ \A h \in 1..(i - 1) : column.cells[h].k = "na"
       IN IsDateLike(Str(column.cells[first], column))

ConvertedColumn(name, column) ==
    IF ShouldConvert(name, column) THEN ToDatetime(column, FmtNone) ELSE column

\* self.date_columns.append(col) happened for this column
Appended(name, column) ==
    ShouldConvert(name, column) /\ NotnaAny(ToDatetime(column, FmtNone))

\* _convert_date_columns: the table after the loop
ConvertDateColumns(t) ==
    [t EXCEPT !.col = [c \in DOMAIN t.col |-> ConvertedColumn(c, t.col[c])]]

\* _convert_date_columns: the names appended to self.date_columns
AppendedDateColumns(t) == {c \in ColSet(t) : Appended(c, t.col[c])}

\* _identify_columns: date_cols
DateCols(t) == {c \in ColSet(t) : IsDatetime(t.col[c])}

\* _identify_columns: numeric_cols, in column order
NumericCols(t) == SelectSeq(t.cols, LAMBDA c : IsNumeric(t.col[c]))

\* _identify_columns: self.dimensions
DimensionCols(t) ==
    SelectSeq(t.cols, LAMBDA c : c \notin SeqToSet(NumericCols(t)) \/ c \in DateCols(t))

\* file_name.lower().endswith('.xlsx') / '.csv'
SupportedFormat(file_name) ==
    \/ EndsWith(Lower(file_name), <<".", "x", "l", "s", "x">>)
    \/ EndsWith(Lower(file_name), <<".", "c", "s", "v">>)

-----------------------------------------------------------------------------
(* DataProcessor as a value: the six fields of the object                  *)

\* DataProcessor.__init__
NewProcessor ==
    [data |-> NoData, metrics |-> <<>>, dimensions |-> <<>>, date_columns |-> {},
     metric_types |-> <<>>, aggregation_types |-> <<>>]

\* the object held by the variables
Self ==
    [data |-> data, metrics |-> metrics, dimensions |-> dimensions,
     date_columns |-> date_columns, metric_types |-> metric_types,
     aggregation_types |-> aggregation_types]

SetSelf(dp) ==
    /\ data' = dp.data
    /\ metrics' = dp.metrics
    /\ dimensions' = dp.dimensions
    /\ date_columns' = dp.date_columns
    /\ metric_types' = dp.metric_types
    /\ aggregation_types' = dp.aggregation_types

\* an uploaded file: its name and the table pd.read_csv / pd.read_excel reads from it
File(id, name, table) == [id |-> id, name |-> name, table |-> table]

\* _identify_metric_types: the two dicts after the loop over self.metrics
IdentifyMetricTypes(dp) ==
    [dp EXCEPT
        !.metric_types = DictUpdate(dp.metric_types,
                                    [m \in SeqToSet(dp.metrics) |-> ClassifyMetric(m).type]),
        !.aggregation_types = DictUpdate(dp.aggregation_types,
                                         [m \in SeqToSet(dp.metrics) |-> ClassifyMetric(m).agg])]

\* _identify_columns
IdentifyColumns(dp) ==
    [dp EXCEPT
        !.date_columns = dp.date_columns \cup DateCols(dp.data),
        !.metrics = NumericCols(dp.data),
        !.dimensions = DimensionCols(dp.data)]

\* _convert_date_columns
ConvertDates(dp, t) ==
    [dp EXCEPT
        !.data = ConvertDateColumns(t),
        !.date_columns = dp.date_columns \cup AppendedDateColumns(t)]

\* variant of LoadRaises in which every name is taken for a CSV file
LoadRaises_Never(file) == FALSE

\* load_data raises ValueError for this file
LoadRaises(file) == ~SupportedFormat(file.name)

\* load_data: the object after a call that does not raise
load_data(dp, file) == IdentifyMetricTypes(IdentifyColumns(ConvertDates(dp, file.table)))

\* get_metric_type / get_aggregation_type
get_metric_type(dp, metric) ==
    IF metric \in DOMAIN dp.metric_types THEN dp.metric_types[metric] ELSE "number"
get_aggregation_type(dp, metric) ==
    IF metric \in DOMAIN dp.aggregation_types THEN dp.aggregation_types[metric] ELSE "sum"

-----------------------------------------------------------------------------
(* Metric names for the classification study: every concatenation of at    *)
(* most MaxTokens of these tokens, and the six duration names              *)

NameTokens == <<
    <<"c", "p", "m">>,
    <<"c", "p", "c">>,
    <<"c", "p", "a">>,
    <<"c", "p", "v">>,
    <<"c", "p", "l">>,
    <<"c", "p", "i">>,
    <<"c", "o", "s", "t", "_", "p", "e", "r">>,
    <<"c", "o", "s", "t">>,
    <<"v", "a", "l", "u", "e">>,
    <<"s", "p", "e", "n", "d">>,
    <<"r", "a", "t", "e">>,
    <<"c", "t", "r">>,
    <<"%">>,
    <<"c", "l", "i", "c", "k", "s">>,
    <<"i", "m", "p", "r", "e", "s", "s", "i", "o", "n", "s">>,
    <<"p", "u", "r", "c", "h", "a", "s", "e", "s">>,
    <<"v", "i", "e", "w", "s">>,
    <<"_", "c", "l", "i", "c", "k">>,
    <<"a", "v", "g", "_">>,
    <<"_">>,
    <<"t", "o", "t", "a", "l">>,
    <<"C", "P", "C">>,
    <<"C", "l", "i", "c", "k", "s">>,
    <<"d", "u", "r", "a", "t", "i", "o", "n">>,
    <<"w", "a", "t", "c", "h", "_", "t", "i", "m", "e">>
    >>

RECURSIVE TokenSeqs(_)
TokenSeqs(n) ==
    IF n = 0 THEN {<<>>}
    ELSE TokenSeqs(n - 1) \cup
         {Append(q, t) : q \in {p \in TokenSeqs(n - 1) : Len(p) = n - 1}, t \in 1..Len(NameTokens)}

N_watch_time == <<"w", "a", "t", "c", "h", "_", "t", "i", "m", "e">>
N_session_duration == <<"s", "e", "s", "s", "i", "o", "n", "_", "d", "u", "r", "a", "t", "i", "o", "n">>
N_time_on_page == <<"t", "i", "m", "e", "_", "o", "n", "_", "p", "a", "g", "e">>
N_duration == <<"d", "u", "r", "a", "t", "i", "o", "n">>
N_avg_time == <<"a", "v", "g", "_", "t", "i", "m", "e">>
N_average_time == <<"a", "v", "e", "r", "a", "g", "e", "_", "t", "i", "m", "e">>

\* the names of time_patterns, each used as a whole column name
DurationNames ==
    {N_watch_time, N_session_duration, N_time_on_page, N_duration, N_avg_time,
     N_average_time}

MetricNames ==
    {Flatten([i \in 1..Len(q) |-> NameTokens[q[i]]]) : q \in TokenSeqs(MaxTokens) \ {<<>>}}
        \cup DurationNames

\* a report with one numeric column of the given name
MetricFile(name) ==
    File("metric", <<"m", ".", "c", "s", "v">>,
         Table(<<name>>, (name :> Column("num", <<Num(1), Num(2)>>))))

NoOut == [op |-> "none", err |-> ""]

\* the application is not part of this study
AppOff ==
    /\ pc = "off"
    /\ uploaded_file = "none"
    /\ session = <<>>
    /\ user = <<>>

InitClassify ==
    /\ data = NewProcessor.data
    /\ metrics = NewProcessor.metrics
    /\ dimensions = NewProcessor.dimensions
    /\ date_columns = NewProcessor.date_columns
    /\ metric_types = NewProcessor.metric_types
    /\ aggregation_types = NewProcessor.aggregation_types
    /\ input \in {MetricFile(n) : n \in MetricNames}
    /\ out = NoOut
    /\ hist = <<>>
    /\ AppOff

\* data_processor = DataProcessor(); data_processor.load_data(file)
LoadMetricFile ==
    /\ ~data.loaded
    /\ SetSelf(load_data(Self, input))
    /\ out' = [op |-> "load_data", err |-> ""]
    /\ hist' = Append(hist, input.id)
    /\ UNCHANGED <<input, pc, uploaded_file, session, user>>

NextClassify == LoadMetricFile

SpecClassify == InitClassify /\ [][NextClassify]_vars
-----------------------------------------------------------------------------
(* Metric classification at load (SpecClassify)                            *)

N_cpc == <<"c", "p", "c">>
N_avg_cpa == <<"a", "v", "g", "_", "c", "p", "a">>
N_cost_per_click == <<"c", "o", "s", "t", "_", "p", "e", "r", "_", "c", "l", "i", "c", "k">>
N_purchasesvalue == <<"p", "u", "r", "c", "h", "a", "s", "e", "s", "v", "a", "l", "u", "e">>
N_watch_timeclicks == <<"w", "a", "t", "c", "h", "_", "t", "i", "m", "e", "c", "l", "i", "c", "k", "s">>

HasCostPer(m) == ContainsAny(Lower(m), cost_per_patterns)
HasMonetary(m) == ContainsAny(Lower(m), currency_patterns)
HasRate(m) == ContainsAny(Lower(m), percentage_patterns)
HasCount(m) == ContainsAny(Lower(m), count_patterns)

ReadsAs(m, type, agg) ==
    /\ get_metric_type(Self, m) = type
    /\ get_aggregation_type(Self, m) = agg

Loaded == out.op = "load_data" /\ out.err = "" /\ data.loaded

\* C1: after load, every metric whose lower-cased name contains a cost-per
\* substring is (currency, average), whatever else the name contains; so are
\* 'cpc', 'avg_cpa' and 'cost_per_click'.
C1_CostPerWins ==
    Loaded =>
        /\ \A i \in 1..Len(metrics) :
              HasCostPer(metrics[i]) => ReadsAs(metrics[i], "currency", "average")
        /\ \A n \in {N_cpc, N_avg_cpa, N_cost_per_click} :
              metrics = <<n>> => ReadsAs(n, "currency", "average")

\* 'cost_per_click', which also contains the monetary pattern 'cost', has been
\* loaded as a metric and reads (currency, average)
C1_Witness ==
    /\ Loaded
    /\ metrics = <<N_cost_per_click>>
    /\ HasMonetary(N_cost_per_click)
    /\ ReadsAs(N_cost_per_click, "currency", "average")

\* C10 as stated: after load, every metric whose name contains a count
\* substring and no cost-per and no rate substring is (number, sum).
C10_CountIsNumberSum_Original ==
    Loaded =>
        \A i \in 1..Len(metrics) :
            (HasCount(metrics[i]) /\ ~HasCostPer(metrics[i]) /\ ~HasRate(metrics[i]))
                => ReadsAs(metrics[i], "number", "sum")

\* C10 amended: after load, every metric whose name contains a count substring
\* and no cost-per, no monetary-total and no rate substring is (number, sum).
C10_CountIsNumberSum ==
    Loaded =>
        \A i \in 1..Len(metrics) :
            (HasCount(metrics[i]) /\ ~HasCostPer(metrics[i]) /\ ~HasMonetary(metrics[i])
                /\ ~HasRate(metrics[i]))
                => ReadsAs(metrics[i], "number", "sum")

\* 'watch_timeclicks' contains a count substring and a duration substring and
\* none of the three excluded families, and reads (number, sum)
C10_Witness ==
    /\ Loaded
    /\ metrics = <<N_watch_timeclicks>>
    /\ HasCount(N_watch_timeclicks) /\ ~HasCostPer(N_watch_timeclicks)
    /\ ~HasMonetary(N_watch_timeclicks) /\ ~HasRate(N_watch_timeclicks)
    /\ ContainsAny(Lower(N_watch_timeclicks), time_patterns)
    /\ ReadsAs(N_watch_timeclicks, "number", "sum")

-----------------------------------------------------------------------------
(* The manual "Convert to Date" step of main()                             *)

date_formats == <<
    Fmt("-", <<"Y", "m", "d">>, FALSE),   \* '%Y-%m-%d'
    Fmt("-", <<"Y", "m">>, FALSE),        \* '%Y-%m'
    Fmt("/", <<"d", "m", "Y">>, FALSE),   \* '%d/%m/%Y'
    Fmt("/", <<"m", "d", "Y">>, FALSE),   \* '%m/%d/%Y'
    Fmt("-", <<"d", "m", "Y">>, FALSE),   \* '%d-%m-%Y'
    Fmt("/", <<"Y", "m">>, FALSE),        \* '%Y/%m'
    Fmt("-", <<"Y", "m", "d">>, TRUE),    \* '%Y-%m-%d %H:%M:%S'
    FmtNone                               \* None: let pandas infer
    >>

\* the loop over date_formats from its k-th format on: every iteration stores
\* the parsed column back into the table, and the loop stops at the first
\* format after which the column holds a non-missing value
RECURSIVE TryFormats(_, _)
TryFormats(column, k) ==
    IF k > Len(date_formats) THEN [column |-> column, converted |-> FALSE]
    ELSE LET parsed == ToDatetime(column, date_formats[k])
         IN IF NotnaAny(parsed) THEN [column |-> parsed, converted |-> TRUE]
            ELSE TryFormats(parsed, k + 1)

\* the object after "Convert to Date" was pressed for selected_date_col
manual_convert(dp, selected_date_col) ==
    LET r == TryFormats(dp.data.col[selected_date_col], 1)
    IN [dp EXCEPT
           !.data.col[selected_date_col] = r.column,
           !.date_columns = IF r.converted THEN dp.date_columns \cup {selected_date_col}
                            ELSE dp.date_columns]

-----------------------------------------------------------------------------
(* Reports used by the Table Model study                                   *)

N_Date == <<"D", "a", "t", "e">>
N_Campaign == <<"C", "a", "m", "p", "a", "i", "g", "n">>
N_clicks == <<"c", "l", "i", "c", "k", "s">>
N_spend == <<"s", "p", "e", "n", "d">>
N_Order_Day == <<"O", "r", "d", "e", "r", " ", "D", "a", "y">>
N_When == <<"W", "h", "e", "n">>
N_views == <<"v", "i", "e", "w", "s">>
N_Period == <<"P", "e", "r", "i", "o", "d">>

D(y, m, d) == Dt(Ordinal(y, m, d))

\* a text date column with a date-hint name, a text dimension, a count metric
FileA ==
    File("A", <<"a", ".", "c", "s", "v">>,
         Table(<<N_Date, N_Campaign, N_clicks>>,
               (N_Date :> Column("obj", <<Txt(<<"2", "0", "2", "4", "-", "0", "1", "-", "0", "1">>), Txt(<<"2", "0", "2", "4", "-", "0", "1", "-", "0", "2">>)>>)) @@
               (N_Campaign :> Column("obj", <<Txt(<<"A">>), Txt(<<"B">>)>>)) @@
               (N_clicks :> Column("num", <<Num(10), Num(20)>>))))

\* a numeric column that is called Date, and a monetary metric
FileB ==
    File("B", <<"b", ".", "c", "s", "v">>,
         Table(<<N_Date, N_spend>>,
               (N_Date :> Column("num", <<Num(1), Num(2)>>)) @@
               (N_spend :> Column("num", <<Num(5), Num(7)>>))))

\* no date at all; a metric with a missing value; upper-case extension
FileC ==
    File("C", <<"c", ".", "C", "S", "V">>,
         Table(<<N_Campaign, N_spend>>,
               (N_Campaign :> Column("obj", <<Txt(<<"A">>), Txt(<<"A">>)>>)) @@
               (N_spend :> Column("num", <<Num(3), NA>>))))

\* a date-hint name whose texts have the shape of a date and are no dates
FileD ==
    File("D", <<"d", ".", "c", "s", "v">>,
         Table(<<N_Order_Day, N_clicks>>,
               (N_Order_Day :> Column("obj", <<Txt(<<"2", "0", "2", "4", "-", "1", "3", "-", "4", "5">>), Txt(<<"2", "0", "2", "4", "-", "9", "9", "-", "9", "9">>)>>)) @@
               (N_clicks :> Column("num", <<Num(1), Num(2)>>))))

\* a spreadsheet with a native temporal column whose name is no hint
FileE ==
    File("E", <<"e", ".", "x", "l", "s", "x">>,
         Table(<<N_When, N_views>>,
               (N_When :> Column("dt", <<D(2024, 1, 1), D(2024, 1, 2)>>)) @@
               (N_views :> Column("num", <<Num(0), Num(4)>>))))

\* an unsupported container
FileF ==
    File("F", <<"f", ".", "t", "x", "t">>,
         Table(<<N_clicks>>, (N_clicks :> Column("num", <<Num(1), Num(2)>>))))

\* dates in a text column whose name is no hint: nothing is detected at load
FileG ==
    File("G", <<"g", ".", "c", "s", "v">>,
         Table(<<N_Period, N_views>>,
               (N_Period :> Column("obj", <<Txt(<<"2", "0", "2", "4", "-", "0", "1", "-", "0", "1">>), Txt(<<"2", "0", "2", "4", "-", "0", "1", "-", "0", "3">>)>>)) @@
               (N_views :> Column("num", <<Num(0), Num(4)>>))))

\* day/month/year dates in a text column whose name is no hint
FileI ==
    File("I", <<"i", ".", "c", "s", "v">>,
         Table(<<N_Period, N_views>>,
               (N_Period :> Column("obj", <<Txt(<<"2", "5", "/", "1", "2", "/", "2", "0", "2", "4">>), Txt(<<"2", "6", "/", "1", "2", "/", "2", "0", "2", "4">>)>>)) @@
               (N_views :> Column("num", <<Num(0), Num(4)>>))))

Files == {FileA, FileB, FileC, FileD, FileE, FileF, FileG, FileI}

\* every column name of the reports
ColumnNames == UNION {ColSet(f.table) : f \in Files}

-----------------------------------------------------------------------------
(* The Table Model: one DataProcessor object, loaded any number of times   *)

Init ==
    /\ data = NewProcessor.data
    /\ metrics = NewProcessor.metrics
    /\ dimensions = NewProcessor.dimensions
    /\ date_columns = NewProcessor.date_columns
    /\ metric_types = NewProcessor.metric_types
    /\ aggregation_types = NewProcessor.aggregation_types
    /\ input = FileA
    /\ out = NoOut
    /\ hist = <<>>
    /\ AppOff

\* data_processor = DataProcessor()
Construct ==
    /\ hist # <<>>
    /\ SetSelf(NewProcessor)
    /\ out' = NoOut
    /\ hist' = <<>>
    /\ UNCHANGED <<input, pc, uploaded_file, session, user>>

\* load_data(file), supported container
LoadData(file) ==
    /\ Len(hist) < MaxLoads
    /\ ~LoadRaises(file)
    /\ SetSelf(load_data(Self, file))
    /\ input' = file
    /\ out' = [op |-> "load_data", err |-> ""]
    /\ hist' = Append(hist, file.id)
    /\ UNCHANGED <<pc, uploaded_file, session, user>>

\* load_data(file), unsupported container: raises before any assignment
LoadDataRaises(file) ==
    /\ Len(hist) < MaxLoads
    /\ LoadRaises(file)
    /\ input' = file
    /\ out' = [op |-> "load_data", err |-> "ValueError"]
    /\ UNCHANGED <<data, metrics, dimensions, date_columns, metric_types,
                   aggregation_types, hist, pc, uploaded_file, session, user>>

\* "Convert to Date" pressed for a column, right after a load that found no
\* date column
ManualConvert(selected_date_col) ==
    /\ data.loaded
    /\ out.op = "load_data" /\ out.err = ""
    /\ date_columns = {}
    /\ selected_date_col \in ColSet(data)
    /\ SetSelf(manual_convert(Self, selected_date_col))
    /\ out' = [op |-> "manual_convert",
               err |-> IF selected_date_col \in manual_convert(Self, selected_date_col).date_columns
                       THEN "" ELSE "not converted"]
    /\ UNCHANGED <<input, hist, pc, uploaded_file, session, user>>

Next ==
    \/ Construct
    \/ \E file \in Files : LoadData(file)
    \/ \E file \in Files : LoadDataRaises(file)
    \/ \E c \in ColumnNames : ManualConvert(c)

Spec == Init /\ [][Next]_vars
-----------------------------------------------------------------------------
(* Column classification of the Table Model (Spec)                         *)

\* C2: in every state with a loaded table, no column is both a date column and
\* a metric, the dimensions are the columns of the table minus the metrics, and
\* every date column is a dimension.
C2_ClassificationInvariant ==
    data.loaded =>
        /\ date_columns \cap SeqToSet(metrics) = {}
        /\ SeqToSet(dimensions) = ColSet(data) \ SeqToSet(metrics)
        /\ date_columns \subseteq SeqToSet(dimensions)

\* the column was a date candidate whose first value has the shape of a date,
\* and the bulk parse of the column gave only missing values
ParseGaveNothing(name, column) ==
    ShouldConvert(name, column) /\ ~NotnaAny(ToDatetime(column, FmtNone))

\* C6: after a load, a column whose first value is date-shaped and whose bulk
\* parse gave only missing values is not in date_columns and is a dimension.
C6_UnparsedStaysDimension ==
    (Loaded /\ Len(hist) = 1) =>
        \A c \in ColSet(input.table) :
            ParseGaveNothing(c, input.table.col[c]) =>
                c \notin date_columns /\ c \in SeqToSet(dimensions)

\* C9: after load_data of a dataset on an object that has loaded before, the
\* derived state is the one a new object gets from that dataset alone: no
\* column name and no semantics entry is left from an earlier dataset, and
\* date_columns is a subset of the columns of the dataset.
C9_DerivedStateDescribesLatest ==
    (Loaded /\ Len(hist) >= 2) =>
        /\ Self = load_data(NewProcessor, input)
        /\ date_columns \subseteq ColSet(input.table)
        /\ DOMAIN metric_types \subseteq SeqToSet(metrics)
        /\ DOMAIN aggregation_types \subseteq SeqToSet(metrics)

-----------------------------------------------------------------------------
(* Ordering of values (pandas sorts group keys and x values ascending)     *)

\* the characters of the model in code-point order
Alphabet ==
    <<" ", "%", ",", "-", ".", "/">> \o Digits \o <<":">> \o UpperLetters \o <<"_">> \o LowerLetters

CharCode(c) == IndexOf(Alphabet, c)

RECURSIVE TextLess(_, _)
TextLess(a, b) ==
    IF b = <<>> THEN FALSE
    ELSE IF a = <<>> THEN TRUE
    ELSE IF Head(a) = Head(b) THEN TextLess(Tail(a), Tail(b))
    ELSE CharCode(Head(a)) < CharCode(Head(b))

\* order of two non-missing cells of one column
CellLess(a, b) == IF a.k = "txt" THEN TextLess(a.s, b.s) ELSE a.n < b.n

\* order of two group keys (tuples of cells of the same length)
RECURSIVE KeyLess(_, _)
KeyLess(a, b) ==
    IF a = <<>> THEN FALSE
    ELSE IF Head(a) = Head(b) THEN KeyLess(Tail(a), Tail(b))
    ELSE CellLess(Head(a), Head(b))

RECURSIVE SortKeys(_)
SortKeys(S) ==
    IF S = {} THEN <<>>
    ELSE LET least == CHOOSE x \in S : \A y \in S \ {x} : KeyLess(x, y)
         IN <<least>> \o SortKeys(S \ {least})

-----------------------------------------------------------------------------
(* DataProcessor.aggregate_metric                                          *)

RECURSIVE Gcd(_, _)
Gcd(a, b) == IF b = 0 THEN a ELSE Gcd(b, a % b)
Abs(x) == IF x < 0 THEN 0 - x ELSE x

\* an aggregate: the exact quotient num / den in lowest terms, or missing (NaN)
Val(num, den) ==
    LET g == Gcd(Abs(num), den)
    IN [k |-> "val", num |-> num \div g, den |-> den \div g]
NaN == [k |-> "nan", num |-> 0, den |-> 1]

\* Series.sum(): missing values are skipped; fold over the cells in row order
RECURSIVE SumCells(_)
SumCells(cells) ==
    IF cells = <<>> THEN 0
    ELSE (IF Head(cells).k = "na" THEN 0 ELSE Head(cells).n) + SumCells(Tail(cells))

\* Series.count(): the non-missing cells
CountCells(cells) == Len(SelectSeq(cells, LAMBDA c : c.k # "na"))

\* variant of the mean that divides by the number of rows, missing ones included
MeanCells_CountsMissing(cells) ==
    IF Len(cells) = 0 THEN NaN ELSE Val(SumCells(cells), Len(cells))

\* Series.mean(): the sum of the non-missing cells over their number
MeanCells(cells) ==
    IF CountCells(cells) = 0 THEN NaN ELSE Val(SumCells(cells), CountCells(cells))

\* the key of row i under group_columns
RowKey(t, group_columns, i) == [j \in 1..Len(group_columns) |-> t.col[group_columns[j]].cells[i]]

\* groupby(group_columns): rows with a missing key cell are dropped
GroupKeys(t, group_columns) ==
    {RowKey(t, group_columns, i) : i \in
        {r \in 1..NumRows(t) : \A j \in 1..Len(group_columns) : RowKey(t, group_columns, r)[j].k # "na"}}

\* the cells of the metric in the rows of one group, in row order
GroupCells(t, group_columns, metric, key) ==
    LET idx == SelectSeq([i \in 1..NumRows(t) |-> i],
                         LAMBDA i : RowKey(t, group_columns, i) = key)
    IN [j \in 1..Len(idx) |-> t.col[metric].cells[idx[j]]]

Reduce(aggregation_type, cells) ==
    IF aggregation_type = "average" THEN MeanCells(cells) ELSE Val(SumCells(cells), 1)

\* aggregate_metric raises KeyError: a column is absent from the table
AggregateRaises(t, metric, group_columns) ==
    \/ metric \notin ColSet(t)
    \/ \E j \in 1..Len(group_columns) : group_columns[j] \notin ColSet(t)

\* aggregate_metric(data, metric, group_columns): one row per group in key
\* order when grouped, one value when not
aggregate_metric(dp, t, metric, group_columns) ==
    LET aggregation_type == get_aggregation_type(dp, metric)
    IN IF group_columns # <<>>
       THEN LET keys == SortKeys(GroupKeys(t, group_columns))
            IN [i \in 1..Len(keys) |->
                   [key |-> keys[i],
                    value |-> Reduce(aggregation_type,
                                     GroupCells(t, group_columns, metric, keys[i]))]]
       ELSE <<[key |-> <<>>, value |-> Reduce(aggregation_type, t.col[metric].cells)]>>

-----------------------------------------------------------------------------
(* Aggregation study: a report of at most MaxRows rows is loaded, the      *)
(* aggregation method of its metric may be overridden, and the metric is   *)
(* aggregated                                                              *)

MaxRows == 3

N_Region == <<"R", "e", "g", "i", "o", "n">>
N_ctr == <<"c", "t", "r">>
N_absent == <<"a", "b", "s", "e", "n", "t">>

TA == Txt(<<"A">>)
TB == Txt(<<"B">>)
TX == Txt(<<"X">>)
TY == Txt(<<"Y">>)

\* the rows a report is made of: Campaign, Region, metric value
RowKinds ==
    {<<TA, TX, Num(10)>>, <<TA, TX, Num(20)>>, <<TB, TX, Num(5)>>, <<TA, TY, Num(20)>>,
     <<TA, TX, NA>>, <<NA, TY, Num(7)>>, <<TB, TY, NA>>}

RECURSIVE RowSeqs(_)
RowSeqs(n) ==
    IF n = 0 THEN {<<>>}
    ELSE RowSeqs(n - 1) \cup
         {Append(q, r) : q \in {p \in RowSeqs(n - 1) : Len(p) = n - 1}, r \in RowKinds}

AggFile(rows, metric) ==
    File("agg", <<"r", ".", "c", "s", "v">>,
         Table(<<N_Campaign, N_Region, metric>>,
               (N_Campaign :> Column("obj", [i \in 1..Len(rows) |-> rows[i][1]])) @@
               (N_Region :> Column("obj", [i \in 1..Len(rows) |-> rows[i][2]])) @@
               (metric :> Column("num", [i \in 1..Len(rows) |-> rows[i][3]]))))

GroupChoices == {<<>>, <<N_Campaign>>, <<N_Region>>, <<N_Campaign, N_Region>>, <<N_absent>>}

InitAgg ==
    /\ data = NewProcessor.data
    /\ metrics = NewProcessor.metrics
    /\ dimensions = NewProcessor.dimensions
    /\ date_columns = NewProcessor.date_columns
    /\ metric_types = NewProcessor.metric_types
    /\ aggregation_types = NewProcessor.aggregation_types
    /\ input \in {AggFile(rows, m) : rows \in RowSeqs(MaxRows) \ {<<>>}, m \in {N_clicks, N_ctr}}
    /\ out = NoOut
    /\ hist = <<>>
    /\ AppOff

\* data_processor = DataProcessor(); data_processor.load_data(file)
LoadAggFile ==
    /\ ~data.loaded
    /\ SetSelf(load_data(Self, input))
    /\ out' = [op |-> "load_data", err |-> ""]
    /\ hist' = Append(hist, input.id)
    /\ UNCHANGED <<input, pc, uploaded_file, session, user>>

\* data_processor.aggregation_types[metric] = new_agg;
\* data_processor.metric_types[metric] = new_type
SetOverride(metric, new_agg, new_type) ==
    /\ data.loaded
    /\ metric \in SeqToSet(metrics)
    /\ aggregation_types' = DictUpdate(aggregation_types, (metric :> new_agg))
    /\ metric_types' = DictUpdate(metric_types, (metric :> new_type))
    /\ out' = [op |-> "override", err |-> ""]
    /\ UNCHANGED <<data, metrics, dimensions, date_columns, input, hist,
                   pc, uploaded_file, session, user>>

\* aggregate_metric(self.data, metric, group_columns)
Aggregate(metric, group_columns) ==
    /\ data.loaded
    /\ ~AggregateRaises(data, metric, group_columns)
    /\ out' = [op |-> "aggregate", err |-> "", metric |-> metric,
               group_columns |-> group_columns,
               result |-> aggregate_metric(Self, data, metric, group_columns)]
    /\ UNCHANGED <<data, metrics, dimensions, date_columns, metric_types,
                   aggregation_types, input, hist, pc, uploaded_file, session, user>>

\* aggregate_metric on an absent column
AggregateKeyError(metric, group_columns) ==
    /\ data.loaded
    /\ AggregateRaises(data, metric, group_columns)
    /\ out' = [op |-> "aggregate", err |-> "KeyError", metric |-> metric,
               group_columns |-> group_columns, result |-> <<>>]
    /\ UNCHANGED <<data, metrics, dimensions, date_columns, metric_types,
                   aggregation_types, input, hist, pc, uploaded_file, session, user>>

NextAgg ==
    \/ LoadAggFile
    \/ \E m \in {N_clicks, N_ctr}, a \in {"sum", "average"} :
          SetOverride(m, a, get_metric_type(Self, m))
    \/ \E m \in {N_clicks, N_ctr}, g \in GroupChoices : Aggregate(m, g)
    \/ \E m \in {N_clicks, N_ctr, N_absent}, g \in GroupChoices : AggregateKeyError(m, g)

SpecAgg == InitAgg /\ [][NextAgg]_vars
-----------------------------------------------------------------------------
(* Aggregation (SpecAgg)                                                   *)

\* the rows of a group that hold a value of the metric
PresentRows(t, group_columns, metric, key) ==
    {i \in 1..NumRows(t) :
        /\ group_columns # <<>> => RowKey(t, group_columns, i) = key
        /\ t.col[metric].cells[i].k # "na"}

\* the arithmetic total of the metric over a set of rows
RECURSIVE TotalOver(_, _, _)
TotalOver(t, metric, S) ==
    IF S = {} THEN 0
    ELSE LET i == CHOOSE x \in S : TRUE
         IN t.col[metric].cells[i].n + TotalOver(t, metric, S \ {i})

Aggregated == out.op = "aggregate" /\ out.err = ""

ExampleRows == <<<<TA, TX, Num(10)>>, <<TA, TX, Num(20)>>, <<TB, TX, Num(5)>>>>

\* C3: aggregate_metric returns one value per group (per combination of the
\* grouping values); it is the total of the metric over the group when the
\* metric's current method is 'sum' and the mean over the non-missing values of
\* the group when it is 'average'; groups {A:[10,20], B:[5]} give {A:30, B:5}
\* and {A:15, B:5}.
C3_AggregateIsTotalOrMean ==
    Aggregated =>
        LET g == out.group_columns
            m == out.metric
            method == get_aggregation_type(Self, m)
            keys == IF g = <<>> THEN {<<>>} ELSE GroupKeys(data, g)
        IN /\ {out.result[i].key : i \in 1..Len(out.result)} = keys
           /\ Len(out.result) = Cardinality(keys)
           /\ \A i \in 1..Len(out.result) :
                 LET P == PresentRows(data, g, m, out.result[i].key)
                     v == out.result[i].value
                 IN /\ method = "sum" =>
                          v = [k |-> "val", num |-> TotalOver(data, m, P), den |-> 1]
                    /\ (method = "average" /\ P # {}) =>
                          /\ v.k = "val" /\ v.den > 0
                          /\ v.num * Cardinality(P) = TotalOver(data, m, P) * v.den
           /\ (input = AggFile(ExampleRows, m) /\ g = <<N_Campaign>>) =>
                 out.result = <<[key |-> <<TA>>,
                                 value |-> IF method = "sum" THEN Val(30, 1) ELSE Val(15, 1)],
                                [key |-> <<TB>>, value |-> Val(5, 1)]>>

\* the count metric 'clicks', overridden to 'average', aggregated by Campaign
\* over {A:[10,20], B:[5]}
C3_Witness ==
    /\ Aggregated
    /\ input = AggFile(ExampleRows, N_clicks)
    /\ out.metric = N_clicks /\ out.group_columns = <<N_Campaign>>
    /\ get_aggregation_type(Self, N_clicks) = "average"
    /\ out.result = <<[key |-> <<TA>>, value |-> Val(15, 1)], [key |-> <<TB>>, value |-> Val(5, 1)]>>

-----------------------------------------------------------------------------
(* DataProcessor.filter_data                                               *)

\* a frame: the rows kept (by their row label in the source table, in order)
\* and the table they form; is_self tells whether the frame is the very
\* object self.data, so that an assignment into it is one into self.data
Frame(index, t) == [index |-> index, table |-> t, is_self |-> FALSE]

\* variant without the copy: filtered_data = self.data
CopyOf_NoCopy(t) == [Frame([i \in 1..NumRows(t) |-> i], t) EXCEPT !.is_self = TRUE]

\* self.data.copy()
CopyOf(t) == Frame([i \in 1..NumRows(t) |-> i], t)

\* frame[mask]: the rows whose position satisfies the mask, in order
KeepRows(frame, mask) ==
    LET pos == SelectSeq([i \in 1..Len(frame.index) |-> i], LAMBDA i : mask[i])
    IN Frame([j \in 1..Len(pos) |-> frame.index[pos[j]]],
             [frame.table EXCEPT !.col =
                 [c \in DOMAIN frame.table.col |->
                     [frame.table.col[c] EXCEPT !.cells =
                         [j \in 1..Len(pos) |-> frame.table.col[c].cells[pos[j]]]]]])

\* Series.isin(values)
IsinMask(frame, column, values) ==
    [i \in 1..Len(frame.index) |->
        \E v \in 1..Len(values) : values[v] = frame.table.col[column].cells[i]]

\* Series >= start_date; a missing value compares False
GeMask(frame, column, start_date) ==
    [i \in 1..Len(frame.index) |->
        LET c == frame.table.col[column].cells[i] IN c.k # "na" /\ c.n >= start_date.n]

\* Series <= end_date; a missing value compares False
LeMask(frame, column, end_date) ==
    [i \in 1..Len(frame.index) |->
        LET c == frame.table.col[column].cells[i] IN c.k # "na" /\ c.n <= end_date.n]

AndMask(a, b) == [i \in 1..Len(a) |-> a[i] /\ b[i]]

\* truth value of a bound: None is false, a Timestamp is true
Truthy(bound) == bound.k # "na"

\* the loop over filters.items(), from its k-th item on
RECURSIVE ApplyCategoryFilters(_, _, _, _)
ApplyCategoryFilters(t, frame, filters, k) ==
    IF k > Len(filters) THEN frame
    ELSE LET column == filters[k][1]
             values == filters[k][2]
         IN IF column \in ColSet(t) /\ values # <<>>
            THEN ApplyCategoryFilters(t, KeepRows(frame, IsinMask(frame, column, values)),
                                      filters, k + 1)
            ELSE ApplyCategoryFilters(t, frame, filters, k + 1)

\* variant of the date-range step whose two-sided range excludes the end date
ApplyDateRange_EndExclusive(t, frame, column, start_date, end_date) ==
    IF column \in ColSet(t) /\ IsDatetime(t.col[column])
    THEN IF Truthy(start_date) /\ Truthy(end_date)
         THEN KeepRows(frame, AndMask(GeMask(frame, column, start_date),
                                      LeMask(frame, column, [end_date EXCEPT !.n = @ - 1])))
         ELSE IF Truthy(start_date) THEN KeepRows(frame, GeMask(frame, column, start_date))
         ELSE IF Truthy(end_date) THEN KeepRows(frame, LeMask(frame, column, end_date))
         ELSE frame
    ELSE frame

\* the body of the loop over date_range_filters.items() for one item
ApplyDateRange(t, frame, column, start_date, end_date) ==
    IF column \in ColSet(t) /\ IsDatetime(t.col[column])
    THEN IF Truthy(start_date) /\ Truthy(end_date)
         THEN KeepRows(frame, AndMask(GeMask(frame, column, start_date),
                                      LeMask(frame, column, end_date)))
         ELSE IF Truthy(start_date) THEN KeepRows(frame, GeMask(frame, column, start_date))
         ELSE IF Truthy(end_date) THEN KeepRows(frame, LeMask(frame, column, end_date))
         ELSE frame
    ELSE frame

\* the loop over date_range_filters.items(), from its k-th item on
RECURSIVE ApplyDateRangeFilters(_, _, _, _)
ApplyDateRangeFilters(t, frame, date_range_filters, k) ==
    IF k > Len(date_range_filters) THEN frame
    ELSE ApplyDateRangeFilters(
             t,
             ApplyDateRange(t, frame, date_range_filters[k][1],
                            date_range_filters[k][2], date_range_filters[k][3]),
             date_range_filters, k + 1)

\* filter_data(filters, date_range_filters); a dict is the sequence of its
\* items, and date_range_filters = None is the empty sequence
filter_data(dp, filters, date_range_filters) ==
    ApplyDateRangeFilters(dp.data,
                          ApplyCategoryFilters(dp.data, CopyOf(dp.data), filters, 1),
                          date_range_filters, 1)

-----------------------------------------------------------------------------
(* Filtering study: a report of at most MaxFilterRows rows with a text     *)
(* date column is loaded and filtered                                      *)

MaxFilterRows == 2

D1 == D(2024, 1, 1)
D2 == D(2024, 1, 2)
D3 == D(2024, 1, 3)

\* the rows a report is made of: Date (as text), Campaign, clicks
FilterRowKinds ==
    {<<Txt(<<"2", "0", "2", "4", "-", "0", "1", "-", "0", "1">>), TA, Num(10)>>,
     <<Txt(<<"2", "0", "2", "4", "-", "0", "1", "-", "0", "2">>), TB, Num(20)>>,
     <<Txt(<<"2", "0", "2", "4", "-", "0", "1", "-", "0", "3">>), TA, Num(0)>>,
     <<Txt(<<"b", "a", "d">>), TB, Num(5)>>,
     <<Txt(<<"2", "0", "2", "4", "-", "0", "1", "-", "0", "2">>), NA, Num(7)>>}

RECURSIVE FilterRowSeqs(_)
FilterRowSeqs(n) ==
    IF n = 0 THEN {<<>>}
    ELSE FilterRowSeqs(n - 1) \cup
         {Append(q, r) : q \in {p \in FilterRowSeqs(n - 1) : Len(p) = n - 1}, r \in FilterRowKinds}

FilterFile(rows) ==
    File("filter", <<"r", ".", "c", "s", "v">>,
         Table(<<N_Date, N_Campaign, N_clicks>>,
               (N_Date :> Column("obj", [i \in 1..Len(rows) |-> rows[i][1]])) @@
               (N_Campaign :> Column("obj", [i \in 1..Len(rows) |-> rows[i][2]])) @@
               (N_clicks :> Column("num", [i \in 1..Len(rows) |-> rows[i][3]]))))

\* the category filters a caller may pass: per column either no entry or one
\* of some allowed lists
CategoryFilters ==
    {a \o b \o c :
        a \in {<<>>, <<<<N_Campaign, <<>>>>>>, <<<<N_Campaign, <<TA>>>>>>,
               <<<<N_Campaign, <<TA, TB>>>>>>},
        b \in {<<>>, <<<<N_clicks, <<Num(10), Num(0)>>>>>>},
        c \in {<<>>, <<<<N_absent, <<TA>>>>>>}}

Bounds == {NA, D1, D2, D3}

\* the date-range filters a caller may pass
DateRangeFilters ==
    {a \o b :
        a \in {<<>>} \cup {<<<<N_Date, s, e>>>> : s \in Bounds, e \in Bounds},
        b \in {<<>>, <<<<N_Campaign, D1, D2>>>>}}

InitFilter ==
    /\ data = NewProcessor.data
    /\ metrics = NewProcessor.metrics
    /\ dimensions = NewProcessor.dimensions
    /\ date_columns = NewProcessor.date_columns
    /\ metric_types = NewProcessor.metric_types
    /\ aggregation_types = NewProcessor.aggregation_types
    /\ input \in {FilterFile(rows) : rows \in FilterRowSeqs(MaxFilterRows) \ {<<>>}}
    /\ out = NoOut
    /\ hist = <<>>
    /\ AppOff

\* data_processor = DataProcessor(); data_processor.load_data(file)
LoadFilterFile ==
    /\ ~data.loaded
    /\ SetSelf(load_data(Self, input))
    /\ out' = [op |-> "load_data", err |-> ""]
    /\ hist' = Append(hist, input.id)
    /\ UNCHANGED <<input, pc, uploaded_file, session, user>>

\* filtered_data = data_processor.filter_data(filters, date_range_filters):
\* called once in a pass, on the table as loaded
FilterData(filters, date_range_filters) ==
    /\ data.loaded
    /\ out.op = "load_data"
    /\ out' = [op |-> "filter_data", err |-> "", filters |-> filters,
               date_range_filters |-> date_range_filters,
               result |-> filter_data(Self, filters, date_range_filters)]
    /\ UNCHANGED <<data, metrics, dimensions, date_columns, metric_types,
                   aggregation_types, input, hist, pc, uploaded_file, session, user>>

NextFilter ==
    \/ LoadFilterFile
    \/ \E f \in CategoryFilters, d \in DateRangeFilters : FilterData(f, d)

SpecFilter == InitFilter /\ [][NextFilter]_vars
-----------------------------------------------------------------------------
(* Filtering (SpecFilter)                                                  *)

Filtered == out.op = "filter_data" /\ out.err = ""

\* (a): the value of row i is allowed by every category filter on a column of
\* the table that has a non-empty allowed list
PassesCategories(t, filters, i) ==
    \A k \in 1..Len(filters) :
        (filters[k][1] \in ColSet(t) /\ filters[k][2] # <<>>) =>
            t.col[filters[k][1]].cells[i] \in SeqToSet(filters[k][2])

\* (b): the value of row i is inside every range given for a date column of the
\* table, both ends included; an absent end restricts nothing
PassesRanges(t, ranges, i) ==
    \A k \in 1..Len(ranges) :
        (ranges[k][1] \in ColSet(t) /\ IsDatetime(t.col[ranges[k][1]])) =>
            LET c == t.col[ranges[k][1]].cells[i]
                lo == ranges[k][2]
                hi == ranges[k][3]
            IN /\ lo # NA => (c # NA /\ lo.n <= c.n)
               /\ hi # NA => (c # NA /\ c.n <= hi.n)

\* C4: filter_data keeps exactly the rows that pass every category filter with
\* a non-empty allowed list and lie inside every date range, ends included, a
\* one-sided range restricting one side only; the kept rows keep their order
\* and their values.
C4_FilterKeepsExactly ==
    Filtered =>
        LET r == out.result
        IN /\ SeqToSet(r.index) =
                 {i \in 1..NumRows(data) :
                     /\ PassesCategories(data, out.filters, i)
                     /\ PassesRanges(data, out.date_range_filters, i)}
           /\ \A j \in 1..(Len(r.index) - 1) : r.index[j] < r.index[j + 1]
           /\ \A c \in ColSet(data) :
                 r.table.col[c].cells = [j \in 1..Len(r.index) |-> data.col[c].cells[r.index[j]]]

\* a two-row report filtered to Campaign A and to the range [Jan 1, Jan 3]:
\* the row dated Jan 3, on the end of the range, is kept together with the
\* row dated Jan 1
C4_Witness ==
    /\ Filtered
    /\ NumRows(data) = 2
    /\ data.col[N_Date].cells = <<D1, D3>>
    /\ out.filters = <<<<N_Campaign, <<TA>>>>>>
    /\ out.date_range_filters = <<<<N_Date, D1, D3>>>>
    /\ out.result.index = <<1, 2>>

\* a one-sided range: only an end date is given, the row after it is dropped
C4_WitnessOneSided ==
    /\ Filtered
    /\ data.col[N_Date].cells = <<D1, D3>>
    /\ out.date_range_filters = <<<<N_Date, NA, D2>>>>
    /\ out.filters = <<>>
    /\ out.result.index = <<1>>
-----------------------------------------------------------------------------
(* LineChart._split_into_continuous_segments                               *)
(* A series is the dtype of its x column and its points in row order; a    *)
(* point is its x value, its y value and the row it came from.             *)

Point(x, y, id) == [x |-> x, y |-> y, id |-> id]
Series(dtype, points) == [dtype |-> dtype, points |-> points]

\* x sorts before y under sort_values: missing values go last
SortsBefore(x, y) == x.k # "na" /\ (y.k = "na" \/ CellLess(x, y))

\* insert a point after every point that does not sort after it
RECURSIVE InsertPoint(_, _)
InsertPoint(sorted, p) ==
    IF sorted = <<>> THEN <<p>>
    ELSE IF SortsBefore(p.x, Head(sorted).x) THEN <<p>> \o sorted
    ELSE <<Head(sorted)>> \o InsertPoint(Tail(sorted), p)

\* data.sort_values(by=x_axis).reset_index(drop=True)
RECURSIVE SortPoints(_)
SortPoints(points) ==
    IF points = <<>> THEN <<>>
    ELSE InsertPoint(SortPoints(SubSeq(points, 1, Len(points) - 1)), points[Len(points)])

\* data[x_axis].diff(): position i holds x[i] - x[i-1], position 1 and every
\* difference with a missing operand are missing
Diffs(points) ==
    [i \in 1..Len(points) |->
        IF i = 1 \/ points[i].x.k = "na" \/ points[i - 1].x.k = "na" THEN NA
        ELSE Num(points[i].x.n - points[i - 1].x.n)]

\* dropna()
DropNa(cells) == SelectSeq(cells, LAMBDA c : c.k # "na")

RECURSIVE InsertNum(_, _)
InsertNum(sorted, v) ==
    IF sorted = <<>> THEN <<v>>
    ELSE IF v < Head(sorted) THEN <<v>> \o sorted
    ELSE <<Head(sorted)>> \o InsertNum(Tail(sorted), v)

RECURSIVE SortNums(_)
SortNums(cells) ==
    IF cells = <<>> THEN <<>>
    ELSE InsertNum(SortNums(Tail(cells)), Head(cells).n)

\* twice Series.median() of the non-missing cells (the median of an even number
\* of values is the mean of the two middle ones); -1 when there is none
Median2(cells) ==
    LET s == SortNums(DropNa(cells))
        n == Len(s)
    IN IF n = 0 THEN -1
       ELSE IF n % 2 = 1 THEN 2 * s[(n + 1) \div 2]
       ELSE s[n \div 2] + s[(n \div 2) + 1]

\* variant of the gap test that also splits at a difference equal to the threshold
SplitIdx_NotStrict(diffs, median2) ==
    SelectSeq([i \in 1..Len(diffs) |-> i],
              LAMBDA i : diffs[i].k # "na" /\ 2 * diffs[i].n >= 3 * median2)

\* variant of the gap test whose threshold is the median itself
SplitIdx_AtMedian(diffs, median2) ==
    SelectSeq([i \in 1..Len(diffs) |-> i],
              LAMBDA i : diffs[i].k # "na" /\ 2 * diffs[i].n >= median2)

\* value_diffs[value_diffs > large_gap_threshold].index.tolist(), with
\* large_gap_threshold = median * 3; positions are 1-based here
SplitIdx(diffs, median2) ==
    SelectSeq([i \in 1..Len(diffs) |-> i],
              LAMBDA i : diffs[i].k # "na" /\ 2 * diffs[i].n > 3 * median2)

\* variant of the loop that ends a segment at the split index itself, as a
\* slice up to the label idx does
RECURSIVE CutSegments_Inclusive(_, _, _, _)
CutSegments_Inclusive(points, split_idx, k, start_idx) ==
    IF k > Len(split_idx) THEN <<SubSeq(points, start_idx, Len(points))>>
    ELSE <<SubSeq(points, start_idx, split_idx[k])>>
         \o CutSegments_Inclusive(points, split_idx, k + 1, split_idx[k])

\* the loop over split_idx and the final segment
RECURSIVE CutSegments(_, _, _, _)
CutSegments(points, split_idx, k, start_idx) ==
    IF k > Len(split_idx) THEN <<SubSeq(points, start_idx, Len(points))>>
    ELSE <<SubSeq(points, start_idx, split_idx[k] - 1)>>
         \o CutSegments(points, split_idx, k + 1, split_idx[k])

\* Series.diff() raises TypeError on a text column
SegmentRaises(series) == Len(series.points) > 1 /\ series.dtype = "obj"

\* variant that returns no segment for a series without points
split_into_continuous_segments_NoneForEmpty(series) ==
    IF Len(series.points) = 0 THEN <<>>
    ELSE IF Len(series.points) <= 1 THEN <<series.points>>
    ELSE LET sorted == SortPoints(series.points)
             diffs == Diffs(sorted)
             median2 == Median2(diffs)
         IN IF median2 < 0 \/ median2 = 0 THEN <<sorted>>
            ELSE LET split_idx == SplitIdx(diffs, median2)
                 IN IF split_idx = <<>> THEN <<sorted>>
                    ELSE CutSegments(sorted, split_idx, 1, 1)

\* _split_into_continuous_segments(data, x_axis): the list of segments
split_into_continuous_segments(series) ==
    IF Len(series.points) <= 1 THEN <<series.points>>
    ELSE LET sorted == SortPoints(series.points)
             diffs == Diffs(sorted)
             median2 == Median2(diffs)
         IN IF median2 < 0 \/ median2 = 0 THEN <<sorted>>
            ELSE LET split_idx == SplitIdx(diffs, median2)
                 IN IF split_idx = <<>> THEN <<sorted>>
                    ELSE CutSegments(sorted, split_idx, 1, 1)

-----------------------------------------------------------------------------
(* Gap segmentation study: a series of at most MaxPoints points, given by  *)
(* the gaps between its keys, in ascending or in descending row order,     *)
(* with numeric or with date keys; and a text series of at most one point  *)

MaxPoints == 6

GapVals == {0, 1, 3, 4, 7}

RECURSIVE GapSeqs(_)
GapSeqs(n) ==
    IF n = 0 THEN {<<>>}
    ELSE GapSeqs(n - 1) \cup
         {Append(q, g) : q \in {p \in GapSeqs(n - 1) : Len(p) = n - 1}, g \in GapVals}

\* the keys 1, 1 + g1, 1 + g1 + g2, ...
RECURSIVE KeysOf(_)
KeysOf(gaps) ==
    IF gaps = <<>> THEN <<1>>
    ELSE LET ks == KeysOf(SubSeq(gaps, 1, Len(gaps) - 1))
         IN Append(ks, ks[Len(ks)] + gaps[Len(gaps)])

Reverse(q) == [i \in 1..Len(q) |-> q[Len(q) + 1 - i]]

\* key k as a cell of the x column: a number, or the date k - 1 days after
\* 2024-01-01
KeyCell(dtype, k) == IF dtype = "dt" THEN Dt(Ordinal(2024, 1, 1) + k - 1) ELSE Num(k)

SeriesOf(dtype, keys) ==
    Series(dtype, [i \in 1..Len(keys) |-> Point(KeyCell(dtype, keys[i]), Num(1), i)])

SegInputs ==
    {Series("num", <<>>), Series("dt", <<>>), Series("obj", <<>>),
     Series("obj", <<Point(TA, Num(1), 1)>>)} \cup
    {SeriesOf(t, ks) : t \in {"num", "dt"},
                       ks \in UNION {{KeysOf(g), Reverse(KeysOf(g))} : g \in GapSeqs(MaxPoints - 1)}}

InitSeg ==
    /\ data = NewProcessor.data
    /\ metrics = NewProcessor.metrics
    /\ dimensions = NewProcessor.dimensions
    /\ date_columns = NewProcessor.date_columns
    /\ metric_types = NewProcessor.metric_types
    /\ aggregation_types = NewProcessor.aggregation_types
    /\ input \in SegInputs
    /\ out = NoOut
    /\ hist = <<>>
    /\ AppOff

\* segments = self._split_into_continuous_segments(data, x_axis)
Segment ==
    /\ out.op = "none"
    /\ ~SegmentRaises(input)
    /\ out' = [op |-> "segment", err |-> "", result |-> split_into_continuous_segments(input)]
    /\ UNCHANGED <<data, metrics, dimensions, date_columns, metric_types,
                   aggregation_types, input, hist, pc, uploaded_file, session, user>>

NextSeg == Segment

SpecSeg == InitSeg /\ [][NextSeg]_vars
-----------------------------------------------------------------------------
(* Gap segmentation (SpecSeg)                                              *)

Segmented == out.op = "segment" /\ out.err = ""

\* the keys of the input in ascending order
RECURSIVE AscendingKeys(_)
AscendingKeys(S) ==
    IF S = {} THEN <<>>
    ELSE LET i == CHOOSE x \in S : \A y \in S : input.points[x].x.n <= input.points[y].x.n
         IN <<input.points[i].x.n>> \o AscendingKeys(S \ {i})

SortedKeys == AscendingKeys(1..Len(input.points))

\* the consecutive key deltas
KeyDeltas == [i \in 1..(Len(SortedKeys) - 1) |-> SortedKeys[i + 1] - SortedKeys[i]]

AtMost(ds, v) == Cardinality({i \in 1..Len(ds) : ds[i] <= v})
AtLeast(ds, v) == Cardinality({i \in 1..Len(ds) : ds[i] >= v})

\* the two middle values of the deltas (equal when their number is odd): the
\* median is half their sum
LowerMiddle(ds) ==
    CHOOSE v \in SeqToSet(ds) :
        /\ AtMost(ds, v) >= (Len(ds) + 1) \div 2
        /\ AtLeast(ds, v) >= Len(ds) - ((Len(ds) + 1) \div 2) + 1
UpperMiddle(ds) ==
    CHOOSE v \in SeqToSet(ds) :
        /\ AtMost(ds, v) >= (Len(ds) \div 2) + 1
        /\ AtLeast(ds, v) >= Len(ds) - (Len(ds) \div 2)
TwiceMedian(ds) == LowerMiddle(ds) + UpperMiddle(ds)

\* the positions (in ascending key order) at which a segment of the result starts
RECURSIVE SegmentStarts(_, _)
SegmentStarts(segments, offset) ==
    IF segments = <<>> THEN {}
    ELSE {offset + 1} \cup SegmentStarts(Tail(segments), offset + Len(Head(segments)))

SegmentKeys(segments) ==
    [i \in 1..Len(segments) |-> [j \in 1..Len(segments[i]) |-> segments[i][j].x.n]]

ExampleKeys == <<1, 2, 3, 10, 11, 12>>

\* C5: for a series of at least two points whose key deltas have a positive
\* median m, a segment starts before position i (i > 1) of the series in key
\* order iff key[i] - key[i-1] > 3 * m, a delta equal to 3 * m giving no split;
\* keys [1,2,3,10,11,12] give [[1,2,3],[10,11,12]].
C5_SplitIffGapExceedsThreshold ==
    (Segmented /\ Len(input.points) >= 2 /\ TwiceMedian(KeyDeltas) > 0) =>
        /\ SegmentStarts(out.result, 0) \ {1} =
              {i \in 2..Len(SortedKeys) : 2 * KeyDeltas[i - 1] > 3 * TwiceMedian(KeyDeltas)}
        /\ Flatten(SegmentKeys(out.result)) = SortedKeys
        /\ input = SeriesOf("num", ExampleKeys) =>
              SegmentKeys(out.result) = <<<<1, 2, 3>>, <<10, 11, 12>>>>

\* keys [1,2,5,6,13]: the deltas 1,3,1,7 have median 2 (threshold 6); the delta
\* 7 splits and the delta 3 does not
C5_Witness ==
    /\ Segmented
    /\ input = SeriesOf("num", <<1, 2, 5, 6, 13>>)
    /\ SegmentKeys(out.result) = <<<<1, 2, 5, 6>>, <<13>>>>

\* keys [1,2,3,6,7]: the delta 3 equals 3 times the median 1 and does not split
C5_WitnessTie ==
    /\ Segmented
    /\ input = SeriesOf("num", <<1, 2, 3, 6, 7>>)
    /\ Len(out.result) = 1
-----------------------------------------------------------------------------
(* The application: main() is run from top to bottom once per interaction   *)
(* (a pass).  st.session_state lives across passes; a widget created with  *)
(* a key returns the value the user gave it, or, when it holds no value,   *)
(* the option at its index; a widget that a completed pass did not create  *)
(* loses its value; st.rerun() abandons the pass and starts the next one.  *)

\* another report with a metric called 'clicks'
FileH ==
    File("H", <<"h", ".", "c", "s", "v">>,
         Table(<<N_Campaign, N_clicks>>,
               (N_Campaign :> Column("obj", <<Txt(<<"A">>), Txt(<<"B">>)>>)) @@
               (N_clicks :> Column("num", <<Num(3), Num(4)>>))))

\* the reports the user uploads
AppFiles == {FileA, FileH, FileG}

AppMetrics == UNION {SeqToSet(NumericCols(f.table)) : f \in AppFiles}

AppColumns == UNION {ColSet(f.table) : f \in AppFiles}

AggOptions == <<"sum", "average">>
TypeOptions == <<"number", "currency", "percentage">>
DecimalOptions == <<0, 1, 2, 3>>

\* no "Convert to Date" press is waiting
NoClick == <<>>

\* st.session_state of a new session
NewSession == [metric_overrides |-> <<>>, widgets |-> <<>>, click |-> NoClick]

\* nothing chosen by the user yet
NoChoice ==
    [m \in AppMetrics |-> [agg |-> "none", type |-> "none",
                           agg_old |-> FALSE, type_old |-> FALSE]]

\* st.selectbox(..., index=..., key=...) for one of the three boxes of a metric
selectbox(widgets, metric, box, default) ==
    IF metric \in DOMAIN widgets THEN widgets[metric][box] ELSE default

\* one iteration of the loop over metrics: the three values the boxes return
OverrideOf(dp, metric_overrides, widgets, metric) ==
    LET current_agg == IF metric \in DOMAIN metric_overrides
                       THEN metric_overrides[metric].agg
                       ELSE get_aggregation_type(dp, metric)
        current_type == IF metric \in DOMAIN metric_overrides
                        THEN metric_overrides[metric].type
                        ELSE get_metric_type(dp, metric)
    IN [agg |-> selectbox(widgets, metric, "agg",
                          AggOptions[IF current_agg = "average" THEN 2 ELSE 1]),
        type |-> selectbox(widgets, metric, "type",
                           TypeOptions[IndexOf(TypeOptions, current_type)]),
        decimals |-> selectbox(widgets, metric, "decimals", DecimalOptions[3])]

\* variant of the override section that stores the choices in the session and
\* does not assign them to the data processor
ApplyOverrides_SessionOnly(dp, metric_overrides, widgets) ==
    LET new == [m \in SeqToSet(dp.metrics) |-> OverrideOf(dp, metric_overrides, widgets, m)]
    IN [dp |-> dp,
        metric_overrides |-> DictUpdate(metric_overrides, new),
        widgets |-> new]

\* the override section: the data processor, st.session_state.metric_overrides
\* and the values of the boxes after the loop over metrics
ApplyOverrides(dp, metric_overrides, widgets) ==
    LET new == [m \in SeqToSet(dp.metrics) |-> OverrideOf(dp, metric_overrides, widgets, m)]
    IN [dp |-> [dp EXCEPT
                   !.aggregation_types =
                       DictUpdate(dp.aggregation_types,
                                  [m \in SeqToSet(dp.metrics) |-> new[m].agg]),
                   !.metric_types =
                       DictUpdate(dp.metric_types,
                                  [m \in SeqToSet(dp.metrics) |-> new[m].type])],
        metric_overrides |-> DictUpdate(metric_overrides, new),
        widgets |-> new]

\* what a chart builder or the overview reads from the data processor
Reads(op, dp) ==
    [op |-> op, err |-> "",
     agg |-> [m \in SeqToSet(dp.metrics) |-> get_aggregation_type(dp, m)],
     type |-> [m \in SeqToSet(dp.metrics) |-> get_metric_type(dp, m)]]

InitApp ==
    /\ data = NewProcessor.data
    /\ metrics = NewProcessor.metrics
    /\ dimensions = NewProcessor.dimensions
    /\ date_columns = NewProcessor.date_columns
    /\ metric_types = NewProcessor.metric_types
    /\ aggregation_types = NewProcessor.aggregation_types
    /\ input = FileA
    /\ out = NoOut
    /\ hist = <<>>
    /\ pc = "idle"
    /\ uploaded_file = "none"
    /\ session = NewSession
    /\ user = [choice |-> NoChoice, read |-> "none"]

\* the user puts a file into the uploader; choices made so far were made for
\* the previous report when this one is a different file
Upload(file) ==
    /\ pc = "idle"
    /\ file.id # uploaded_file
    /\ uploaded_file' = file.id
    /\ input' = file
    /\ user' = IF file.id = input.id THEN user
               ELSE [user EXCEPT !.choice =
                        [m \in AppMetrics |->
                            [user.choice[m] EXCEPT
                                !.agg_old = (user.choice[m].agg # "none"),
                                !.type_old = (user.choice[m].type # "none")]]]
    /\ pc' = "run"
    /\ UNCHANGED <<tmVars, out, hist, session>>

\* the user takes the file out of the uploader
RemoveFile ==
    /\ pc = "idle"
    /\ uploaded_file # "none"
    /\ uploaded_file' = "none"
    /\ pc' = "run"
    /\ UNCHANGED <<tmVars, input, out, hist, session, user>>

\* the user picks another aggregation in the box of a metric
SelectAgg(metric, new_agg) ==
    /\ pc = "idle"
    /\ metric \in DOMAIN session.widgets
    /\ new_agg # session.widgets[metric].agg
    /\ session' = [session EXCEPT !.widgets[metric].agg = new_agg]
    /\ user' = [user EXCEPT !.choice[metric].agg = new_agg,
                            !.choice[metric].agg_old = FALSE,
                            !.read = "none"]
    /\ pc' = "run"
    /\ UNCHANGED <<tmVars, input, out, hist, uploaded_file>>

\* the user picks another format type in the box of a metric
SelectType(metric, new_type) ==
    /\ pc = "idle"
    /\ metric \in DOMAIN session.widgets
    /\ new_type # session.widgets[metric].type
    /\ session' = [session EXCEPT !.widgets[metric].type = new_type]
    /\ user' = [user EXCEPT !.choice[metric].type = new_type,
                            !.choice[metric].type_old = FALSE,
                            !.read = "none"]
    /\ pc' = "run"
    /\ UNCHANGED <<tmVars, input, out, hist, uploaded_file>>

\* the user presses "Convert to Date" with a column selected
ClickConvert(selected_date_col) ==
    /\ pc = "idle"
    /\ uploaded_file # "none"
    /\ data.loaded
    /\ date_columns = {}
    /\ selected_date_col \in ColSet(data)
    /\ session' = [session EXCEPT !.click = selected_date_col]
    /\ pc' = "run"
    /\ UNCHANGED <<tmVars, input, out, hist, uploaded_file, user>>

\* any other interaction: the script runs again
Rerun ==
    /\ pc = "idle"
    /\ pc' = "run"
    /\ UNCHANGED <<tmVars, input, out, hist, uploaded_file, session, user>>

\* the pass up to the metric lists: without a file nothing is drawn; with one,
\* a new DataProcessor is built and loaded, and a load error ends the pass
PassLoad ==
    /\ pc = "run"
    /\ IF uploaded_file = "none" \/ LoadRaises(input)
       THEN /\ pc' = "idle"
            /\ session' = [session EXCEPT !.widgets = <<>>, !.click = NoClick]
            /\ out' = NoOut
            /\ UNCHANGED tmVars
       ELSE /\ SetSelf(load_data(NewProcessor, input))
            /\ pc' = "loaded"
            /\ out' = [op |-> "load_data", err |-> ""]
            /\ UNCHANGED session
    /\ UNCHANGED <<input, hist, uploaded_file, user>>

\* the "Convert to Date" block: entered when no date column was found; a
\* press converts the selected column and, when it worked, starts a new pass
PassConvert ==
    /\ pc = "loaded"
    /\ IF date_columns = {} /\ session.click # NoClick /\ session.click \in ColSet(data)
       THEN LET dp == manual_convert(Self, session.click)
            IN /\ SetSelf(dp)
               /\ pc' = IF dp.date_columns # {} THEN "run" ELSE "converted"
       ELSE /\ pc' = "converted"
            /\ UNCHANGED tmVars
    /\ session' = [session EXCEPT !.click = NoClick]
    /\ UNCHANGED <<input, out, hist, uploaded_file, user>>

\* the sidebar with its filters left empty, filter_data, and the override
\* section; the boxes of the metrics of this report are the ones drawn
PassOverrides ==
    /\ pc = "converted"
    /\ LET filtered_data == filter_data(Self, <<>>, <<>>)
           r == ApplyOverrides(Self, session.metric_overrides, session.widgets)
       IN /\ SetSelf(r.dp)
          /\ session' = [session EXCEPT !.metric_overrides = r.metric_overrides,
                                        !.widgets = r.widgets]
          /\ out' = [op |-> "filter_data", err |-> "", index |-> filtered_data.index]
    /\ pc' = "overridden"
    /\ UNCHANGED <<input, hist, uploaded_file, user>>

\* the chart builder reads the semantics of the metrics it draws
PassChart ==
    /\ pc = "overridden"
    /\ out' = Reads("chart", Self)
    /\ pc' = "charted"
    /\ UNCHANGED <<tmVars, input, hist, uploaded_file, session, user>>

\* the overview reads the semantics of the metrics it shows; the pass ends
PassOverview ==
    /\ pc = "charted"
    /\ out' = Reads("overview", Self)
    /\ user' = [user EXCEPT !.read = IF user.read = "none" THEN "same" ELSE "later"]
    /\ pc' = "idle"
    /\ UNCHANGED <<tmVars, input, hist, uploaded_file, session>>

NextApp ==
    \/ \E file \in AppFiles : Upload(file)
    \/ RemoveFile
    \/ \E metric \in AppMetrics : \E new_agg \in SeqToSet(AggOptions) :
          SelectAgg(metric, new_agg)
    \/ \E metric \in AppMetrics : \E new_type \in SeqToSet(TypeOptions) :
          SelectType(metric, new_type)
    \/ \E selected_date_col \in AppColumns : ClickConvert(selected_date_col)
    \/ Rerun
    \/ PassLoad
    \/ PassConvert
    \/ PassOverrides
    \/ PassChart
    \/ PassOverview

SpecApp == InitApp /\ [][NextApp]_vars
-----------------------------------------------------------------------------
(* Claims about the metric overrides of the application                    *)

\* the semantics of the metrics have just been read by a chart builder or by
\* the overview, and the user has done nothing since
ReadDone == pc \in {"charted", "idle"} /\ out.op \in {"chart", "overview"}

C7_WitnessBoxesDropped ==
    /\ pc = "charted"
    /\ input = FileA
    /\ user.choice[N_clicks].agg = "average"
    /\ user.choice[N_views].type = "percentage"
    /\ N_views \notin DOMAIN session.widgets
    /\ N_views \in DOMAIN session.metric_overrides
    /\ out.agg[N_clicks] = "average"

\* C8: after a different file has been uploaded, a metric of the new report
\* whose name was overridden for the previous report, and for which the user
\* has chosen nothing since, reads the type and aggregation inferred from its
\* name.
C8_NewTableClearsOverrides ==
    ReadDone =>
        \A m \in DOMAIN out.agg :
            /\ user.choice[m].agg_old => out.agg[m] = ClassifyMetric(m).agg
            /\ user.choice[m].type_old => out.type[m] = ClassifyMetric(m).type
-----------------------------------------------------------------------------
(* Claims about the duration family of the rule table                      *)

\* C11: after load, each of the six duration names, used as the name of a
\* metric column, reads (number, average).
C11_DurationIsNumberAverage ==
    Loaded =>
        \A n \in DurationNames :
            metrics = <<n>> => ReadsAs(n, "number", "average")
-----------------------------------------------------------------------------
(* Claims about aggregation without contributing values or columns         *)

\* C12: a group, or an ungrouped table, without a non-missing value of the
\* metric aggregates to the missing value under 'sum' and under 'average'.
C12_EmptyGroupIsMissing ==
    Aggregated =>
        \A i \in 1..Len(out.result) :
            PresentRows(data, out.group_columns, out.metric, out.result[i].key) = {}
                => out.result[i].value = NaN

\* the grouping columns that the table has, in order
PresentColumns(t, group_columns) == SelectSeq(group_columns, LAMBDA c : c \in ColSet(t))

\* C13: an aggregation whose metric or grouping column is absent from the
\* table does not raise; an absent grouping column is ignored, the result being
\* the one for the grouping columns that the table has.
C13_AbsentColumnIgnored ==
    out.op = "aggregate" =>
        /\ out.err = ""
        /\ out.metric \in ColSet(data) =>
              out.result = aggregate_metric(Self, data, out.metric,
                                            PresentColumns(data, out.group_columns))
-----------------------------------------------------------------------------
(* Date detection study: a report with one text column, of at most         *)
(* MaxCells rows, and a metric is loaded by a new DataProcessor            *)

MaxCells == 3

N_Report_Date == <<"R", "e", "p", "o", "r", "t", " ", "D", "a", "t", "e">>
N_Campaign_Date_Notes == <<"C", "a", "m", "p", "a", "i", "g", "n", " ", "D", "a", "t", "e", " ", "N", "o", "t", "e", "s">>
N_Day == <<"D", "a", "y">>

T_Jan1 == Txt(<<"2", "0", "2", "4", "-", "0", "1", "-", "0", "1">>)  \* '2024-01-01'
T_Jan2 == Txt(<<"2", "0", "2", "4", "-", "0", "1", "-", "0", "2">>)  \* '2024-01-02'
T_bad == Txt(<<"b", "a", "d">>)  \* 'bad'
T_spring_sale == Txt(<<"s", "p", "r", "i", "n", "g", " ", "s", "a", "l", "e">>)  \* 'spring sale'
T_no_date == Txt(<<"2", "0", "2", "4", "-", "1", "3", "-", "4", "5">>)  \* '2024-13-45'
T_see_Jan1 == Txt(<<"s", "e", "e", " ", "2", "0", "2", "4", "-", "0", "1", "-", "0", "1">>)  \* 'see 2024-01-01'

\* names with a date hint ('date', 'day') and one without
DetectNames == {N_Report_Date, N_Campaign_Date_Notes, N_Day, N_Campaign}

\* dates, texts that are no dates (one has the shape of a date, one holds a
\* date among other words), and the missing value
DetectValues == {T_Jan1, T_Jan2, T_bad, T_spring_sale, T_no_date, T_see_Jan1, NA}

RECURSIVE CellSeqs(_)
CellSeqs(n) ==
    IF n = 0 THEN {<<>>}
    ELSE CellSeqs(n - 1) \cup
         {Append(q, v) : q \in {p \in CellSeqs(n - 1) : Len(p) = n - 1}, v \in DetectValues}

\* the text column as pd.read_csv gives it: object dtype when it holds a text
DetectFile(name, cells) ==
    File("detect", <<"t", ".", "c", "s", "v">>,
         Table(<<name, N_clicks>>,
               (name :> Column("obj", cells)) @@
               (N_clicks :> Column("num", [i \in 1..Len(cells) |-> Num(i)]))))

DetectInputs ==
    {DetectFile(name, cells) :
        name \in DetectNames,
        cells \in {q \in CellSeqs(MaxCells) : \E i \in 1..Len(q) : q[i].k = "txt"}}

InitDetect ==
    /\ data = NewProcessor.data
    /\ metrics = NewProcessor.metrics
    /\ dimensions = NewProcessor.dimensions
    /\ date_columns = NewProcessor.date_columns
    /\ metric_types = NewProcessor.metric_types
    /\ aggregation_types = NewProcessor.aggregation_types
    /\ input \in DetectInputs
    /\ out = NoOut
    /\ hist = <<>>
    /\ AppOff

\* data_processor = DataProcessor(); data_processor.load_data(file)
LoadDetectFile ==
    /\ ~data.loaded
    /\ SetSelf(load_data(Self, input))
    /\ out' = [op |-> "load_data", err |-> ""]
    /\ hist' = Append(hist, input.id)
    /\ UNCHANGED <<input, pc, uploaded_file, session, user>>

NextDetect == LoadDetectFile

SpecDetect == InitDetect /\ [][NextDetect]_vars
-----------------------------------------------------------------------------
(* Claims about date detection (SpecDetect)                                *)

\* the text column of the report, as uploaded
TextColumn == input.table.cols[1]
RawCells == input.table.col[TextColumn].cells

HasDateHint(name) == \E k \in 1..Len(date_hints) : Contains(Lower(name), date_hints[k])

\* the first non-missing cell has the shape of a date
FirstIsDateShaped(cells) ==
    \E i \in 1..Len(cells) :
        /\ cells[i].k = "txt"
        /\ \A h \in 1..(i - 1) : cells[h].k = "na"
        /\ IsDateLike(cells[i].s)

ParsesAsDate(cell) == cell.k = "txt" /\ ParseDate(cell.s) # NA

\* C14: a text column with a date-hint name whose first non-missing value is
\* date-shaped and of which at least one row parses as a date is, after load,
\* a date column (and a dimension, not a metric); every row that parses holds
\* its date and every other row is missing; the load does not fail.  'Report
\* Date' with ['2024-01-01', '2024-01-02', 'bad'] becomes [Jan 1, Jan 2, missing].
C14_PartlyParsedIsDate ==
    (Loaded /\ HasDateHint(TextColumn) /\ FirstIsDateShaped(RawCells)
        /\ \E i \in 1..Len(RawCells) : ParsesAsDate(RawCells[i])) =>
        /\ out.err = ""
        /\ TextColumn \in date_columns
        /\ TextColumn \in SeqToSet(dimensions)
        /\ TextColumn \notin SeqToSet(metrics)
        /\ IsDatetime(data.col[TextColumn])
        /\ Len(data.col[TextColumn].cells) = Len(RawCells)
        /\ \A i \in 1..Len(RawCells) :
              data.col[TextColumn].cells[i] =
                  IF ParsesAsDate(RawCells[i]) THEN ParseDate(RawCells[i].s) ELSE NA
        /\ input = DetectFile(N_Report_Date, <<T_Jan1, T_Jan2, T_bad>>) =>
              data.col[TextColumn].cells = <<D(2024, 1, 1), D(2024, 1, 2), NA>>

\* 'Report Date' with ['2024-01-01', '2024-01-02', 'bad'] has been loaded and
\* is a date column whose third row is missing
C14_Witness ==
    /\ Loaded
    /\ input = DetectFile(N_Report_Date, <<T_Jan1, T_Jan2, T_bad>>)
    /\ N_Report_Date \in date_columns
    /\ data.col[N_Report_Date].cells[3] = NA

\* C15: a column with a date-hint name whose values are all texts matching
\* none of the date-shape patterns is, after load, a dimension and no date
\* column, and holds the values it was uploaded with.
C15_FreeTextStaysDimension ==
    (Loaded /\ HasDateHint(TextColumn)
        /\ \A i \in 1..Len(RawCells) : RawCells[i].k = "txt" /\ ~IsDateLike(RawCells[i].s)) =>
        /\ TextColumn \notin date_columns
        /\ TextColumn \in SeqToSet(dimensions)
        /\ TextColumn \notin SeqToSet(metrics)
        /\ data.col[TextColumn] = input.table.col[TextColumn]

\* 'Campaign Date Notes' with ['spring sale', 'bad'] has been loaded and is a
\* dimension with its two texts
C15_Witness ==
    /\ Loaded
    /\ input = DetectFile(N_Campaign_Date_Notes, <<T_spring_sale, T_bad>>)
    /\ HasDateHint(N_Campaign_Date_Notes)
    /\ N_Campaign_Date_Notes \in SeqToSet(dimensions)
    /\ data.col[N_Campaign_Date_Notes].cells = <<T_spring_sale, T_bad>>
-----------------------------------------------------------------------------
(* LineChart.create_chart: the filters argument and the conversion of the  *)
(* x column, which assigns into the table the builder was given            *)

\* pd.to_datetime(series) with the default errors='raise' raises
ToDatetimeRaises(column) ==
    \E i \in 1..Len(column.cells) :
        column.cells[i].k = "txt" /\ ParseDate(column.cells[i].s) = NA

\* variant of the filters loop that keeps the rows whose value is not allowed
chart_filters_Complement(frame, filters) ==
    LET kept == ApplyCategoryFilters(frame.table, frame, filters, 1)
    IN KeepRows(frame, [i \in 1..Len(frame.index) |-> frame.index[i] \notin SeqToSet(kept.index)])

\* the loop over filters.items(); filters = None is the empty sequence
chart_filters(frame, filters) == ApplyCategoryFilters(frame.table, frame, filters, 1)

\* 'date' in x_axis.lower() or 'day' in x_axis.lower(), the column is not
\* datetime, and pd.to_datetime does not raise
ChartConverts(frame, x_axis) ==
    /\ Contains(Lower(x_axis), <<"d", "a", "t", "e">>) \/ Contains(Lower(x_axis), <<"d", "a", "y">>)
    /\ ~IsDatetime(frame.table.col[x_axis])
    /\ ~ToDatetimeRaises(frame.table.col[x_axis])

\* the table the builder draws: data after the filters loop and the
\* assignment data[x_axis] = pd.to_datetime(data[x_axis])
chart_data(frame, x_axis, filters) ==
    LET d == chart_filters(frame, filters)
    IN IF ChartConverts(d, x_axis)
       THEN [d EXCEPT !.table.col[x_axis] = ToDatetime(d.table.col[x_axis], FmtNone)]
       ELSE d

-----------------------------------------------------------------------------
(* Chart study: a report of at most MaxChartRows rows with a date column   *)
(* and a text column 'Day' of months is loaded, filtered, and the filtered *)
(* table is filtered again and given to the line chart                     *)

MaxChartRows == 2

T_Jan == Txt(<<"2", "0", "2", "4", "-", "0", "1">>)  \* '2024-01'
T_Feb == Txt(<<"2", "0", "2", "4", "-", "0", "2">>)  \* '2024-02'
T_D1 == Txt(<<"2", "0", "2", "4", "-", "0", "1", "-", "0", "1">>)
T_D2 == Txt(<<"2", "0", "2", "4", "-", "0", "1", "-", "0", "2">>)
T_D3 == Txt(<<"2", "0", "2", "4", "-", "0", "1", "-", "0", "3">>)

\* the rows a report is made of: Date (as text), Day, Campaign, clicks
ChartRowKinds ==
    {<<T_D1, T_Jan, TA, Num(10)>>,
     <<T_D2, T_Feb, TB, Num(20)>>,
     <<T_D3, T_Jan, TA, Num(0)>>,
     <<T_D2, T_bad, TB, Num(5)>>,
     <<T_D2, T_Feb, NA, Num(7)>>}

RECURSIVE ChartRowSeqs(_)
ChartRowSeqs(n) ==
    IF n = 0 THEN {<<>>}
    ELSE ChartRowSeqs(n - 1) \cup
         {Append(q, r) : q \in {p \in ChartRowSeqs(n - 1) : Len(p) = n - 1}, r \in ChartRowKinds}

ChartFile(rows) ==
    File("chart", <<"r", ".", "c", "s", "v">>,
         Table(<<N_Date, N_Day, N_Campaign, N_clicks>>,
               (N_Date :> Column("obj", [i \in 1..Len(rows) |-> rows[i][1]])) @@
               (N_Day :> Column("obj", [i \in 1..Len(rows) |-> rows[i][2]])) @@
               (N_Campaign :> Column("obj", [i \in 1..Len(rows) |-> rows[i][3]])) @@
               (N_clicks :> Column("num", [i \in 1..Len(rows) |-> rows[i][4]]))))

ChartCategoryFilters ==
    {<<>>, <<<<N_Campaign, <<>>>>>>, <<<<N_Campaign, <<TA>>>>>>, <<<<N_Campaign, <<TA, TB>>>>>>,
     <<<<N_absent, <<TA>>>>>>, <<<<N_Campaign, <<TB>>>>, <<N_clicks, <<Num(20), Num(7)>>>>>>}

ChartDateRangeFilters ==
    {<<>>, <<<<N_Date, D1, D2>>>>, <<<<N_Date, NA, D2>>>>, <<<<N_Date, D2, NA>>>>,
     <<<<N_Day, D1, D2>>>>}

InitChart ==
    /\ data = NewProcessor.data
    /\ metrics = NewProcessor.metrics
    /\ dimensions = NewProcessor.dimensions
    /\ date_columns = NewProcessor.date_columns
    /\ metric_types = NewProcessor.metric_types
    /\ aggregation_types = NewProcessor.aggregation_types
    /\ input \in {ChartFile(rows) : rows \in ChartRowSeqs(MaxChartRows) \ {<<>>}}
    /\ out = NoOut
    /\ hist = <<>>
    /\ AppOff

\* data_processor = DataProcessor(); data_processor.load_data(file)
LoadChartFile ==
    /\ ~data.loaded
    /\ SetSelf(load_data(Self, input))
    /\ out' = [op |-> "load_data", err |-> ""]
    /\ hist' = Append(hist, input.id)
    /\ UNCHANGED <<input, pc, uploaded_file, session, user>>

\* a second data_processor.filter_data(filters, date_range_filters) with the
\* filter specification of the first
FilterAgain ==
    /\ out.op = "filter_data"
    /\ out' = [op |-> "filter_again", err |-> "", filters |-> out.filters,
               date_range_filters |-> out.date_range_filters,
               filtered |-> out.result,
               result |-> filter_data(Self, out.filters, out.date_range_filters)]
    /\ UNCHANGED <<data, metrics, dimensions, date_columns, metric_types,
                   aggregation_types, input, hist, pc, uploaded_file, session, user>>

\* LineChart.create_chart(filtered_data, x_axis, ..., filters=filters): when
\* the table given is the object self.data, the assignment of the converted
\* column is an assignment into self.data
CreateChart(x_axis, filters) ==
    /\ out.op = "filter_data"
    /\ x_axis \in ColSet(data)
    /\ LET d == chart_filters(out.result, filters)
           shown == chart_data(out.result, x_axis, filters)
       IN /\ data' = IF d.is_self THEN shown.table ELSE data
          /\ out' = [op |-> "create_chart", err |-> "", filters |-> out.filters,
                     date_range_filters |-> out.date_range_filters,
                     filtered |-> out.result, x_axis |-> x_axis,
                     chart_filters |-> filters, result |-> shown]
    /\ UNCHANGED <<metrics, dimensions, date_columns, metric_types,
                   aggregation_types, input, hist, pc, uploaded_file, session, user>>

NextChart ==
    \/ LoadChartFile
    \/ \E f \in ChartCategoryFilters, d \in ChartDateRangeFilters : FilterData(f, d)
    \/ FilterAgain
    \/ \E x_axis \in {N_Date, N_Day, N_Campaign} : \E own \in BOOLEAN :
          CreateChart(x_axis, IF own THEN out.filters ELSE <<>>)

SpecChart == InitChart /\ [][NextChart]_vars
-----------------------------------------------------------------------------
(* Claims about the frame effect and the idempotence of filtering          *)
(* (SpecChart)                                                             *)

AfterFilter == out.op \in {"filter_data", "filter_again", "create_chart"}

\* C16: for every filter specification, filter_data returns a table that is
\* not the loaded table itself, and the loaded table (rows, values, column
\* types) and the derived classification are as the load left them, also after
\* the chart builder has assigned a converted column into the table it was
\* given.
C16_FilterLeavesSourceUnchanged ==
    AfterFilter =>
        /\ ~out.result.is_self
        /\ Self = load_data(NewProcessor, input)

\* no filter of the specification removes a row, the chart builder converted
\* the text column 'Day' of the table it was given, and the loaded table
\* still holds the texts
C16_Witness ==
    /\ out.op = "create_chart"
    /\ out.filters = <<>> /\ out.date_range_filters = <<>>
    /\ out.x_axis = N_Day
    /\ IsDatetime(out.result.table.col[N_Day])
    /\ ~IsDatetime(data.col[N_Day])
    /\ data.col[N_Day].cells = <<T_Jan, T_Feb>>

\* C17: a second filter_data call with the same filter specification returns
\* the rows of the first, and the chart builder's filters argument, given the
\* category filters of the specification, keeps every row of the already
\* filtered table and nothing else.
C17_FilterIdempotent ==
    /\ out.op = "filter_again" =>
          /\ out.result.index = out.filtered.index
          /\ out.result.table = out.filtered.table
    /\ (out.op = "create_chart" /\ out.chart_filters = out.filters) =>
          /\ out.result.index = out.filtered.index
          /\ \A c \in ColSet(data) \ {out.x_axis} :
                out.result.table.col[c] = out.filtered.table.col[c]

\* Campaign A and the range [Jan 1, Jan 2] kept the first of the two rows; the
\* chart builder, given the same category filter, keeps that row
C17_Witness ==
    /\ out.op = "create_chart"
    /\ out.filters = <<<<N_Campaign, <<TA>>>>>>
    /\ out.chart_filters = out.filters
    /\ out.date_range_filters = <<<<N_Date, D1, D2>>>>
    /\ NumRows(data) = 2
    /\ out.filtered.index = <<1>>
    /\ out.result.index = <<1>>

\* the second filter_data call on a report of two rows of which the
\* specification keeps the second
C17_WitnessSecondCall ==
    /\ out.op = "filter_again"
    /\ out.filters = <<<<N_Campaign, <<TB>>>>, <<N_clicks, <<Num(20), Num(7)>>>>>>
    /\ NumRows(data) = 2
    /\ out.filtered.index = <<2>>
    /\ out.result.index = <<2>>
-----------------------------------------------------------------------------
(* Claims about uniform and very short series (SpecSeg)                    *)

\* all consecutive key deltas of the series are equal
Uniform == \A i, j \in 1..Len(KeyDeltas) : KeyDeltas[i] = KeyDeltas[j]

\* C18: for a series whose consecutive key deltas are all equal, of any
\* length, with numeric or with date keys, the segmenter returns exactly one
\* segment, which holds every point in key order.
C18_UniformIsOneSegment ==
    (Segmented /\ input.dtype \in {"num", "dt"} /\ Uniform) =>
        /\ Len(out.result) = 1
        /\ SegmentKeys(out.result) = <<SortedKeys>>

\* six dates three days apart, rows in descending order: one segment
C18_Witness ==
    /\ Segmented
    /\ input = SeriesOf("dt", <<16, 13, 10, 7, 4, 1>>)
    /\ Uniform
    /\ KeyDeltas[1] = 3
    /\ Len(out.result) = 1
    /\ Len(out.result[1]) = 6

\* C19: for a series of no point or of one point the segmenter returns a list
\* of exactly one segment, which is the input as it was given.
C19_ShortSeriesUnchanged ==
    (Segmented /\ Len(input.points) <= 1) =>
        /\ Len(out.result) = 1
        /\ out.result[1] = input.points

\* a series of one point has been segmented
C19_Witness ==
    /\ Segmented
    /\ Len(input.points) = 1
    /\ out.result = <<input.points>>

\* a series without points has been segmented
C19_WitnessEmpty ==
    /\ Segmented
    /\ input = Series("dt", <<>>)
    /\ out.result = <<<<>>>>
-----------------------------------------------------------------------------
(* TikTokStyle and the style customisation of main().  A style object is   *)
(* the function from its attribute names to their values; reading an       *)
(* attribute the object does not have raises AttributeError.               *)

Palette == <<
    "#fe2c56", "#2a6bfdff", "#f4f004", "#00faa2", "#ff6b35", "#9b59b6", "#1abc9c",
    "#e74c3c", "#f39c12", "#34495e", "#8e44ad", "#16a085", "#2ecc71", "#3498db",
    "#e67e22", "#95a5a6", "#d35400", "#27ae60", "#2980b9", "#c0392b"
    >>

\* TikTokStyle.__init__
TikTokStyle ==
    [background_color |-> "#000000", text_color |-> "#ffffff", grid_color |-> "#333333",
     line_color |-> "#2a6bfdff", font_family |-> "Arial, sans-serif",
     title_font_size |-> 16, text_font_size |-> 12, line_width |-> 3,
     axis_line_width |-> 1, colorscale |-> "viridis", bar_colors |-> Palette,
     color_sequence |-> Palette, marker_size |-> 8, show_markers |-> TRUE,
     line_shape |-> "linear", hide_zero_values |-> FALSE]

\* the keys of the dictionary that to_dict builds
ToDictKeys ==
    {"background_color", "text_color", "grid_color", "line_color", "font_family",
     "title_font_size", "text_font_size", "line_width", "axis_line_width", "colorscale",
     "bar_colors", "marker_size", "color_sequence", "show_markers", "line_shape",
     "hide_zero_values"}

\* TikTokStyle.to_dict
to_dict(style) == [key \in ToDictKeys |-> style[key]]

\* TikTokStyle.from_dict: a new object takes the entries that name one of its
\* attributes
from_dict(style_dict) ==
    [key \in DOMAIN TikTokStyle |->
        IF key \in DOMAIN style_dict THEN style_dict[key] ELSE TikTokStyle[key]]

\* no preferences file
NoPrefs == <<>>

InitStyle ==
    /\ data = NewProcessor.data
    /\ metrics = NewProcessor.metrics
    /\ dimensions = NewProcessor.dimensions
    /\ date_columns = NewProcessor.date_columns
    /\ metric_types = NewProcessor.metric_types
    /\ aggregation_types = NewProcessor.aggregation_types
    /\ input = FileA
    /\ out = NoOut
    /\ hist = <<>>
    /\ pc = "off"
    /\ uploaded_file = "none"
    /\ session = [style |-> TikTokStyle, prefs |-> NoPrefs]
    /\ user = [saved |-> TikTokStyle]

\* a new session: st.session_state.style is built from the preferences file
\* when there is one
StartSession ==
    /\ session' = [session EXCEPT !.style = IF session.prefs = NoPrefs THEN TikTokStyle
                                            ELSE from_dict(session.prefs)]
    /\ out' = [op |-> "start_session", err |-> ""]
    /\ UNCHANGED <<tmVars, input, hist, pc, uploaded_file, user>>

\* the other of the two values a widget is moved between
Toggle(value, a, b) == IF value = a THEN b ELSE a

\* what the user does before a pass: nothing, or one widget is changed or one
\* button pressed
BasicChanges == {"none", "hide_zero", "background", "title_font_size"}
LineChanges == BasicChanges \cup {"line_width", "randomize_first", "randomize_last"}
BarChanges == BasicChanges \cup {"bar_color", "save"}
HeatChanges == BasicChanges \cup {"colorscale", "save"}

\* random.sample(tiktok_palette, min(8, len(tiktok_palette))): two of its
\* outcomes, the first colours in order and the last colours backwards
Sample(tiktok_palette, change) ==
    LET n == IF Len(tiktok_palette) < 8 THEN Len(tiktok_palette) ELSE 8
    IN [i \in 1..n |-> IF change = "randomize_first" THEN tiktok_palette[i]
                       ELSE tiktok_palette[Len(tiktok_palette) + 1 - i]]

\* the "Hide Zero Values" box
HideZero(style, change) ==
    [style EXCEPT !.hide_zero_values =
        IF change = "hide_zero" THEN ~style.hide_zero_values ELSE style.hide_zero_values]

\* the pickers and sliders under "Customize Style" that every chart type
\* shows; the pickers of the text and grid colours and the slider of the text
\* size give the value the style has
BasicSettings(style, change) ==
    [style EXCEPT
        !.background_color = IF change = "background"
                             THEN Toggle(style.background_color, "#000000", "#ffffff")
                             ELSE style.background_color,
        !.title_font_size = IF change = "title_font_size"
                            THEN Toggle(style.title_font_size, 16, 24)
                            ELSE style.title_font_size]

\* the "Line Chart Style" block: the width slider and the randomize button
\* act, then the picker of the secondary axis colour reads the attribute
\* secondary_axis_color of the style
LineChartStyle(style, change) ==
    LET s1 == [style EXCEPT !.line_width = IF change = "line_width"
                                           THEN Toggle(style.line_width, 3, 5)
                                           ELSE style.line_width]
        new_colors == Sample(s1.bar_colors, change)
        s2 == IF change \in {"randomize_first", "randomize_last"}
              THEN [s1 EXCEPT !.color_sequence = new_colors, !.line_color = new_colors[1]]
              ELSE s1
    IN IF "secondary_axis_color" \notin DOMAIN s2
       THEN [style |-> s2, err |-> "AttributeError"]
       ELSE [style |-> s2, err |-> ""]

\* the "Bar Chart Style" block: one picker for each of the first five bar
\* colours
BarChartStyle(style, change) ==
    LET n == IF Len(style.bar_colors) < 5 THEN Len(style.bar_colors) ELSE 5
        shown == SubSeq(style.bar_colors, 1, n)
        selected_colors == IF change = "bar_color"
                           THEN [shown EXCEPT ![1] = Toggle(shown[1], "#fe2c56", "#ffffff")]
                           ELSE shown
    IN [style |-> [style EXCEPT !.bar_colors = selected_colors,
                                !.color_sequence = selected_colors],
        err |-> ""]

\* the "Heat Map Style" block
HeatMapStyle(style, change) ==
    [style |-> [style EXCEPT !.colorscale = IF change = "colorscale"
                                            THEN Toggle(style.colorscale, "viridis", "plasma")
                                            ELSE style.colorscale],
     err |-> ""]

\* the end of a pass through the customisation: the style object of the
\* session holds what was assigned before an error, and "Save as Default",
\* reached without error, writes to_dict() to the preferences file
EndPass(r, change) ==
    LET save == r.err = "" /\ change = "save"
    IN /\ session' = [style |-> r.style,
                      prefs |-> IF save THEN to_dict(r.style) ELSE session.prefs]
       /\ user' = [saved |-> IF save THEN r.style ELSE user.saved]
       /\ out' = [op |-> "pass", err |-> r.err]
       /\ UNCHANGED <<tmVars, input, hist, pc, uploaded_file>>

\* a pass with "Customize Style" not ticked
PassPlain(change) ==
    EndPass([style |-> HideZero(session.style, change), err |-> ""], "none")

PassLineChart(change) ==
    EndPass(LineChartStyle(BasicSettings(HideZero(session.style, change), change), change),
            change)

PassBarChart(change) ==
    EndPass(BarChartStyle(BasicSettings(HideZero(session.style, change), change), change),
            change)

PassHeatMap(change) ==
    EndPass(HeatMapStyle(BasicSettings(HideZero(session.style, change), change), change),
            change)

NextStyle ==
    \/ StartSession
    \/ \E change \in {"none", "hide_zero"} : PassPlain(change)
    \/ \E change \in LineChanges : PassLineChart(change)
    \/ \E change \in BarChanges : PassBarChart(change)
    \/ \E change \in HeatChanges : PassHeatMap(change)

SpecStyle == InitStyle /\ [][NextStyle]_vars

\* the fields of the style that a widget of the customisation assigns
OverridableFields ==
    {"hide_zero_values", "background_color", "text_color", "grid_color",
     "title_font_size", "text_font_size", "line_width", "color_sequence", "line_color",
     "secondary_axis_color", "show_markers", "marker_size", "line_shape", "bar_colors",
     "colorscale"}

\* a session has just been started from the preferences file that
\* "Save as Default" wrote for the style user.saved
Reloaded == out.op = "start_session" /\ session.prefs # NoPrefs

\* the style rebuilt from the saved preferences equals the saved style in
\* every entry that to_dict writes
SerialisedFieldsRoundTrip ==
    Reloaded => \A key \in ToDictKeys : session.style[key] = user.saved[key]

\* a customised style was saved and rebuilt
CustomisedReloaded == Reloaded /\ user.saved # TikTokStyle

\* C20: for every style s that the customisation can produce,
\* TikTokStyle.from_dict(s.to_dict()) has every overridable field, the colour
\* of the secondary axis among them, with the value it has in s.
C20_RoundTripEveryOverridableField ==
    Reloaded =>
        \A key \in OverridableFields :
            /\ key \in DOMAIN user.saved
            /\ key \in DOMAIN session.style
            /\ session.style[key] = user.saved[key]

-----------------------------------------------------------------------------
(* Unsupported containers (Spec)                                           *)

\* C21: a load_data call on a file whose name ends in neither .xlsx nor .csv,
\* whatever the case of its letters, raises, and the loaded table and the
\* derived classification are what they were before the call.
C21_UnsupportedLoadChangesNothing ==
    [][(out'.op = "load_data" /\ ~SupportedFormat(input'.name))
            => (out'.err = "ValueError" /\ UNCHANGED tmVars)]_vars

\* an unsupported file was handed to an object that holds a loaded table
C21_Witness ==
    /\ out.op = "load_data" /\ out.err = "ValueError"
    /\ ~SupportedFormat(input.name)
    /\ data.loaded /\ metrics # <<>>

-----------------------------------------------------------------------------
(* Chart builders.  A builder is given a table and the names of the chosen *)
(* columns; what it plots is a list of traces, each a list of points       *)
(* (x value, plotted value, row of the aggregated table).                  *)

\* value != 0 on an aggregated value, and on a cell: a missing value is not
\* equal to zero
NonZero(v) == ~(v.k = "val" /\ v.num = 0)
CellNonZero(c) == ~(c.k = "num" /\ c.n = 0)

\* data[data[metric] != 0]
DropZeroRows(t, metric) ==
    KeepRows(CopyOf(t), [i \in 1..NumRows(t) |-> CellNonZero(t.col[metric].cells[i])]).table

\* the entry of agg_dict for a metric
agg_dict(dp, metric) == IF get_aggregation_type(dp, metric) = "average" THEN "mean" ELSE "sum"

\* GroupBy.agg with 'mean' or 'sum' on the cells of one group
GroupedAgg(fn, cells) == IF fn = "mean" THEN MeanCells(cells) ELSE Val(SumCells(cells), 1)

\* variant of _aggregate_data_properly that sums every metric, as the fallback
\* without a data processor does
aggregate_data_properly_AlwaysSum(dp, t, group_columns, metric_list) ==
    LET keys == SortKeys(GroupKeys(t, group_columns))
    IN [i \in 1..Len(keys) |->
           [key |-> keys[i], id |-> i,
            value |-> [m \in SeqToSet(metric_list) |->
                          GroupedAgg("sum", GroupCells(t, group_columns, m, keys[i]))]]]

\* _aggregate_data_properly(data, group_columns, metric_list) of LineChart and of
\* BarChart: one row per group, in key order, labelled 0, 1, ... by
\* reset_index
aggregate_data_properly(dp, t, group_columns, metric_list) ==
    LET keys == SortKeys(GroupKeys(t, group_columns))
    IN [i \in 1..Len(keys) |->
           [key |-> keys[i], id |-> i,
            value |-> [m \in SeqToSet(metric_list) |->
                          GroupedAgg(agg_dict(dp, m), GroupCells(t, group_columns, m, keys[i]))]]]

\* Series.unique(): the values in order of first appearance
RECURSIVE Unique(_)
Unique(q) ==
    IF q = <<>> THEN <<>>
    ELSE LET front == Unique(SubSeq(q, 1, Len(q) - 1))
         IN IF IsIn(front, q[Len(q)]) THEN front ELSE Append(front, q[Len(q)])

\* the points of the rows of an aggregated table, for one metric
PointsOf(rows, metric) ==
    [i \in 1..Len(rows) |-> Point(rows[i].key[1], rows[i].value[metric], rows[i].id)]

Trace(metric, group, points) == [metric |-> metric, group |-> group, points |-> points]

\* what a builder has made: the traces, the series handed to
\* _split_into_continuous_segments, in call order, and the exception raised
Built(traces, calls, err) == [traces |-> traces, calls |-> calls, err |-> err]

\* two builds one after the other, the second only if the first did not raise
ThenBuilt(a, b) == IF a.err # "" THEN a ELSE Built(a.traces \o b.traces, a.calls \o b.calls, b.err)

\* the traces of a list of series: the segments of each, and TypeError where
\* the segmenter raises
RECURSIVE SegmentTraces(_, _, _, _)
SegmentTraces(metric, groups, series, k) ==
    IF k > Len(series) THEN Built(<<>>, <<>>, "")
    ELSE IF SegmentRaises(series[k]) THEN Built(<<>>, <<series[k]>>, "TypeError")
    ELSE LET segments == split_into_continuous_segments(series[k])
         IN ThenBuilt(Built([j \in 1..Len(segments) |-> Trace(metric, groups[k], segments[j])],
                            <<series[k]>>, ""),
                      SegmentTraces(metric, groups, series, k + 1))

\* group_by = None, secondary_y_axis = None
NoGroup == <<>>

\* LineChart.create_chart without zero-hiding, one metric: the aggregated
\* rows, one trace for each group
line_standard(dp, t, x_axis, y_axis, group_by) ==
    IF group_by # NoGroup /\ group_by \in ColSet(t)
    THEN LET rows == aggregate_data_properly(dp, t, <<x_axis, group_by>>, <<y_axis>>)
             groups == Unique([i \in 1..Len(rows) |-> rows[i].key[2]])
         IN Built([g \in 1..Len(groups) |->
                      Trace(y_axis, groups[g],
                            PointsOf(SelectSeq(rows, LAMBDA r : r.key[2] = groups[g]), y_axis))],
                  <<>>, "")
    ELSE LET rows == aggregate_data_properly(dp, t, <<x_axis>>, <<y_axis>>)
         IN Built(<<Trace(y_axis, NoGroup, PointsOf(rows, y_axis))>>, <<>>, "")

\* _add_grouped_data_with_zero_handling: aggregate, drop the aggregated rows
\* that are zero, segment each group
add_grouped_data_with_zero_handling(dp, t, x_axis, y_axis, group_by) ==
    LET rows == SelectSeq(aggregate_data_properly(dp, t, <<x_axis, group_by>>, <<y_axis>>),
                          LAMBDA r : NonZero(r.value[y_axis]))
        groups == Unique([i \in 1..Len(rows) |-> rows[i].key[2]])
        series == [g \in 1..Len(groups) |->
                      Series(t.col[x_axis].dtype,
                             SortPoints(PointsOf(SelectSeq(rows, LAMBDA r : r.key[2] = groups[g]),
                                                 y_axis)))]
    IN SegmentTraces(y_axis, groups, series, 1)

\* _add_ungrouped_data_with_zero_handling: drop the rows of the table that
\* are zero, aggregate, segment
add_ungrouped_data_with_zero_handling(dp, t, x_axis, y_axis) ==
    LET filtered_data == DropZeroRows(t, y_axis)
        rows == aggregate_data_properly(dp, filtered_data, <<x_axis>>, <<y_axis>>)
    IN SegmentTraces(y_axis, <<NoGroup>>, <<Series(t.col[x_axis].dtype, PointsOf(rows, y_axis))>>, 1)

\* the traces of one metric of a line chart
line_metric(dp, t, hide_zero_values, x_axis, y_axis, group_by) ==
    IF hide_zero_values
    THEN IF group_by # NoGroup /\ group_by \in ColSet(t)
         THEN add_grouped_data_with_zero_handling(dp, t, x_axis, y_axis, group_by)
         ELSE add_ungrouped_data_with_zero_handling(dp, t, x_axis, y_axis)
    ELSE line_standard(dp, t, x_axis, y_axis, group_by)

\* LineChart.create_chart: the primary metric, then the secondary one when
\* there is one
LineChart(dp, t, hide_zero_values, x_axis, y_axis, group_by, secondary_y_axis) ==
    LET primary == line_metric(dp, t, hide_zero_values, x_axis, y_axis, group_by)
    IN IF secondary_y_axis = NoGroup THEN primary
       ELSE ThenBuilt(primary,
                      line_metric(dp, t, hide_zero_values, x_axis, secondary_y_axis, group_by))

\* arithmetic on aggregated values that are not missing
FracLess(a, b) == a.num * b.den < b.num * a.den
FracSub(a, b) == Val(a.num * b.den - b.num * a.den, a.den * b.den)
FracDiv(a, b) == Val(a.num * b.den, a.den * b.num)

\* the values of a metric in an aggregated table that are not missing
Present(rows, metric) ==
    {rows[i].value[metric] : i \in {j \in 1..Len(rows) : rows[j].value[metric].k = "val"}}

\* Series.min() and Series.max(): missing values are skipped, and the result
\* is missing when no value is left
MinOf(S) == IF S = {} THEN NaN ELSE CHOOSE v \in S : \A w \in S : ~FracLess(w, v)
MaxOf(S) == IF S = {} THEN NaN ELSE CHOOSE v \in S : \A w \in S : ~FracLess(v, w)

\* max - min of a metric, when it is positive
HasRange(rows, metric) ==
    /\ Present(rows, metric) # {}
    /\ FracLess(MinOf(Present(rows, metric)), MaxOf(Present(rows, metric)))
RangeOf(rows, metric) == FracSub(MaxOf(Present(rows, metric)), MinOf(Present(rows, metric)))

\* BarChart._check_scaling_needs: more than one metric has a positive range
\* and the largest range is more than ten times the smallest
check_scaling_needs(rows, metric_list) ==
    LET ranged == {i \in 1..Len(metric_list) : HasRange(rows, metric_list[i])}
        ranges == {RangeOf(rows, metric_list[i]) : i \in ranged}
    IN /\ Len(metric_list) > 1
       /\ Cardinality(ranged) > 1
       /\ FracLess(Val(10, 1), FracDiv(MaxOf(ranges), MinOf(ranges)))

\* BarChart._normalize_metrics: each metric on the scale 0 to 100, or the
\* constant 50 where it has no range
normalize_metrics(rows, metric_list) ==
    [i \in 1..Len(rows) |->
        [rows[i] EXCEPT !.value =
            [m \in SeqToSet(metric_list) |->
                IF ~HasRange(rows, m) THEN Val(50, 1)
                ELSE IF rows[i].value[m].k # "val" THEN NaN
                ELSE LET part == FracSub(rows[i].value[m], MinOf(Present(rows, m)))
                         scaled == FracDiv(part, RangeOf(rows, m))
                     IN Val(scaled.num * 100, scaled.den)]]]

\* BarChart.create_chart: aggregate by x_axis; with zero-hiding drop the rows
\* in which every metric is zero; normalise when the scales differ; one
\* trace for each metric, with zero-hiding without its bars of value zero
BarChart(dp, t, hide_zero_values, x_axis, metric_list) ==
    LET aggregated == aggregate_data_properly(dp, t, <<x_axis>>, metric_list)
        grouped_data ==
            IF hide_zero_values
            THEN SelectSeq(aggregated,
                           LAMBDA r : \E i \in 1..Len(metric_list) : NonZero(r.value[metric_list[i]]))
            ELSE aggregated
        needs_normalization == check_scaling_needs(grouped_data, metric_list)
        normalized_data == IF needs_normalization
                           THEN normalize_metrics(grouped_data, metric_list)
                           ELSE grouped_data
    IN Built([i \in 1..Len(metric_list) |->
                 Trace(metric_list[i], NoGroup,
                       PointsOf(IF hide_zero_values
                                THEN SelectSeq(normalized_data,
                                               LAMBDA r : NonZero(r.value[metric_list[i]]))
                                ELSE normalized_data,
                                metric_list[i]))],
             <<>>, "")

\* HeatMap.create_chart: with zero-hiding the rows of the table that are zero
\* are dropped; pivot_table takes the mean of each (y, x) group that has a
\* value and fills the other cells (with 0, or with NaN under zero-hiding);
\* with zero-hiding a mean of zero becomes NaN.  One trace for each row of
\* the pivot table, one point for each of its columns.
HeatMap(dp, t, hide_zero_values, x_axis, y_axis, metric) ==
    LET shown == IF hide_zero_values THEN DropZeroRows(t, metric) ELSE t
        keys == {k \in GroupKeys(shown, <<y_axis, x_axis>>) :
                    MeanCells(GroupCells(shown, <<y_axis, x_axis>>, metric, k)).k = "val"}
        ys == SortKeys({<<k[1]>> : k \in keys})
        xs == SortKeys({<<k[2]>> : k \in keys})
        fill_value == IF hide_zero_values THEN NaN ELSE Val(0, 1)
        cell(y, x) ==
            LET v == IF <<y, x>> \in keys
                     THEN MeanCells(GroupCells(shown, <<y_axis, x_axis>>, metric, <<y, x>>))
                     ELSE fill_value
            IN IF hide_zero_values /\ ~NonZero(v) THEN NaN ELSE v
    IN Built([i \in 1..Len(ys) |->
                 Trace(metric, ys[i][1],
                       [j \in 1..Len(xs) |-> Point(xs[j][1], cell(ys[i][1], xs[j][1]), j)])],
             <<>>, "")

-----------------------------------------------------------------------------
(* Chart study: a report of at most MaxBuildRows rows with a date column,  *)
(* a text dimension, a count metric and a rate metric is loaded and        *)
(* charted, with zero-hiding on or off and the aggregation of a metric     *)
(* overridden or not.  No filter is chosen, so the table handed to the     *)
(* builders has the rows of the loaded one.                                *)

MaxBuildRows == 2

D4 == D(2024, 1, 4)

\* the rows a report is made of: Date, Campaign, clicks, ctr
BuildRowKinds ==
    {<<D1, TA, Num(10), Num(2)>>, <<D1, TA, Num(0), Num(0)>>, <<D2, TB, Num(500), Num(4)>>,
     <<D2, TB, Num(0), Num(0)>>, <<D4, TB, Num(20), NA>>, <<D1, TB, Num(20), Num(4)>>,
     <<D3, TA, Num(10), Num(0)>>}

RECURSIVE BuildRowSeqs(_)
BuildRowSeqs(n) ==
    IF n = 0 THEN {<<>>}
    ELSE BuildRowSeqs(n - 1) \cup
         {Append(q, r) : q \in {p \in BuildRowSeqs(n - 1) : Len(p) = n - 1}, r \in BuildRowKinds}

BuildFile(rows) ==
    File("build", <<"r", ".", "x", "l", "s", "x">>,
         Table(<<N_Date, N_Campaign, N_clicks, N_ctr>>,
               (N_Date :> Column("dt", [i \in 1..Len(rows) |-> rows[i][1]])) @@
               (N_Campaign :> Column("obj", [i \in 1..Len(rows) |-> rows[i][2]])) @@
               (N_clicks :> Column("num", [i \in 1..Len(rows) |-> rows[i][3]])) @@
               (N_ctr :> Column("num", [i \in 1..Len(rows) |-> rows[i][4]]))))

InitBuild ==
    /\ data = NewProcessor.data
    /\ metrics = NewProcessor.metrics
    /\ dimensions = NewProcessor.dimensions
    /\ date_columns = NewProcessor.date_columns
    /\ metric_types = NewProcessor.metric_types
    /\ aggregation_types = NewProcessor.aggregation_types
    /\ input \in {BuildFile(rows) : rows \in BuildRowSeqs(MaxBuildRows) \ {<<>>}}
    /\ out = NoOut
    /\ hist = <<>>
    /\ pc = "off"
    /\ uploaded_file = "none"
    /\ session = [hide_zero_values |-> FALSE]
    /\ user = <<>>

\* data_processor = DataProcessor(); data_processor.load_data(file)
LoadBuildFile ==
    /\ ~data.loaded
    /\ SetSelf(load_data(Self, input))
    /\ out' = [op |-> "load_data", err |-> ""]
    /\ hist' = Append(hist, input.id)
    /\ UNCHANGED <<input, pc, uploaded_file, session, user>>

\* style.hide_zero_values = st.checkbox("Hide Zero Values", ...)
SetHideZero(value) ==
    /\ session' = [session EXCEPT !.hide_zero_values = value]
    /\ out' = [op |-> "hide_zero", err |-> ""]
    /\ UNCHANGED <<tmVars, input, hist, pc, uploaded_file, user>>

\* what main() hands to the builders and what they return
BuildOut(op, x_axis, y_axis, metric_list, group_by, built) ==
    [op |-> op, err |-> built.err, hide |-> session.hide_zero_values, x_axis |-> x_axis,
     y_axis |-> y_axis, metric_list |-> metric_list, group_by |-> group_by,
     traces |-> IF built.err = "" THEN built.traces ELSE <<>>, calls |-> built.calls]

\* line_chart.create_chart(filtered_data, x_axis, y_axis, group_by,
\*                         secondary_y_axis=secondary_y_axis)
BuildLine(x_axis, y_axis, group_by, secondary_y_axis) ==
    /\ data.loaded
    /\ out' = BuildOut("line", x_axis, NoGroup,
                       IF secondary_y_axis = NoGroup THEN <<y_axis>>
                       ELSE <<y_axis, secondary_y_axis>>,
                       group_by,
                       LineChart(Self, data, session.hide_zero_values, x_axis, y_axis,
                                 group_by, secondary_y_axis))
    /\ UNCHANGED <<tmVars, input, hist, pc, uploaded_file, session, user>>

\* bar_chart.create_chart(filtered_data, x_axis, y_metrics, orientation)
BuildBar(x_axis, y_metrics) ==
    /\ data.loaded
    /\ out' = BuildOut("bar", x_axis, NoGroup, y_metrics, NoGroup,
                       BarChart(Self, data, session.hide_zero_values, x_axis, y_metrics))
    /\ UNCHANGED <<tmVars, input, hist, pc, uploaded_file, session, user>>

\* heatmap.create_chart(filtered_data, x_axis, y_axis, metric)
BuildHeat(x_axis, y_axis, metric) ==
    /\ data.loaded
    /\ x_axis # y_axis
    /\ out' = BuildOut("heat", x_axis, y_axis, <<metric>>, NoGroup,
                       HeatMap(Self, data, session.hide_zero_values, x_axis, y_axis, metric))
    /\ UNCHANGED <<tmVars, input, hist, pc, uploaded_file, session, user>>

\* the choices of the line chart settings: x axis and grouping, and the
\* primary and secondary metric
LineAxes == {<<N_Date, NoGroup>>, <<N_Date, N_Campaign>>, <<N_Campaign, NoGroup>>}
LineMetrics == {<<N_clicks, NoGroup>>, <<N_ctr, NoGroup>>, <<N_clicks, N_ctr>>}
BarMetrics == {<<N_clicks>>, <<N_ctr>>, <<N_clicks, N_ctr>>}

NextBuild ==
    \/ LoadBuildFile
    \/ \E value \in BOOLEAN : SetHideZero(value)
    \/ \E m \in {N_clicks, N_ctr}, a \in {"sum", "average"} :
          SetOverride(m, a, get_metric_type(Self, m))
    \/ \E axes \in LineAxes, ys \in LineMetrics : BuildLine(axes[1], ys[1], axes[2], ys[2])
    \/ \E y_metrics \in BarMetrics : BuildBar(N_Campaign, y_metrics)
    \/ \E metric \in {N_clicks, N_ctr} : BuildHeat(N_Date, N_Campaign, metric)

SpecBuild == InitBuild /\ [][NextBuild]_vars

-----------------------------------------------------------------------------
(* Chart builders (SpecBuild)                                              *)

\* a chart was built without zero-hiding
BuiltPlain(op) == out.op = op /\ out.err = "" /\ ~out.hide

\* the grouping a builder aggregates by
GroupingOf(o) ==
    IF o.op = "heat" THEN <<o.y_axis, o.x_axis>>
    ELSE IF o.group_by = NoGroup THEN <<o.x_axis>> ELSE <<o.x_axis, o.group_by>>

\* the key of a plotted point of a trace under that grouping
KeyOfPoint(o, trace, p) ==
    IF o.op = "heat" THEN <<trace.group, p.x>>
    ELSE IF o.group_by = NoGroup THEN <<p.x>> ELSE <<p.x, trace.group>>

\* the value aggregate_metric returns for a key, and whether it returns one
AggregateValue(metric, group_columns, key) ==
    LET result == aggregate_metric(Self, data, metric, group_columns)
    IN result[CHOOSE i \in 1..Len(result) : result[i].key = key].value
HasAggregate(metric, group_columns, key) ==
    \E i \in 1..Len(aggregate_metric(Self, data, metric, group_columns)) :
        aggregate_metric(Self, data, metric, group_columns)[i].key = key

\* every point of the chart shows the value aggregate_metric returns for the
\* rows of its group
PlotsAggregate(o) ==
    \A i \in 1..Len(o.traces) : \A j \in 1..Len(o.traces[i].points) :
        LET key == KeyOfPoint(o, o.traces[i], o.traces[i].points[j])
        IN HasAggregate(o.traces[i].metric, GroupingOf(o), key)
               => o.traces[i].points[j].y = AggregateValue(o.traces[i].metric, GroupingOf(o), key)

\* C22: with zero-hiding off, the value that the line chart, the bar chart and
\* the heat map plot for a group is the value aggregate_metric returns for
\* the rows of the group under the metric's current aggregation method.
C22_BuildersPlotAggregate ==
    (out.op \in {"line", "bar", "heat"} /\ out.err = "" /\ ~out.hide) => PlotsAggregate(out)

\* the same for the line chart alone, and for the bar chart of one metric
LinePlotsAggregate == BuiltPlain("line") => PlotsAggregate(out)
BarPlotsAggregate == (BuiltPlain("bar") /\ Len(out.metric_list) = 1) => PlotsAggregate(out)

\* the groups of a chart that have a value other than zero for a metric: the
\* values of the grouping column, or the one group of ungrouped data
GroupsWithValue(o, metric) ==
    IF o.group_by = NoGroup THEN {NoGroup}
    ELSE LET result == aggregate_metric(Self, data, metric, <<o.x_axis, o.group_by>>)
         IN {result[i].key[2] : i \in {j \in 1..Len(result) : NonZero(result[j].value)}}

RECURSIVE ExpectedCalls(_, _)
ExpectedCalls(o, k) ==
    IF k > Len(o.metric_list) THEN 0
    ELSE Cardinality(GroupsWithValue(o, o.metric_list[k])) + ExpectedCalls(o, k + 1)

\* C23: the gap segmenter is called by the line chart only and under
\* zero-hiding only, once for each plotted metric and group (once for a metric
\* of ungrouped data), and no series it is handed has a point of value zero;
\* the bar chart and the heat map never call it.
C23_SegmenterOnlyAfterZeroRemoval ==
    out.op \in {"line", "bar", "heat"} =>
        /\ out.calls # <<>> => (out.op = "line" /\ out.hide)
        /\ (out.op = "line" /\ out.hide /\ out.err = "") => Len(out.calls) = ExpectedCalls(out, 1)
        /\ \A c \in 1..Len(out.calls) : \A p \in 1..Len(out.calls[c].points) :
               NonZero(out.calls[c].points[p].y)

\* the part of C23 on who calls the segmenter and how often
SegmenterCalledByLineOnly ==
    out.op \in {"line", "bar", "heat"} =>
        /\ out.calls # <<>> => (out.op = "line" /\ out.hide)
        /\ (out.op = "line" /\ out.hide /\ out.err = "") => Len(out.calls) = ExpectedCalls(out, 1)

\* the part of C23 on the series handed over, for grouped data
GroupedSeriesHaveNoZero ==
    (out.op = "line" /\ out.group_by # NoGroup) =>
        \A c \in 1..Len(out.calls) : \A p \in 1..Len(out.calls[c].points) :
            NonZero(out.calls[c].points[p].y)

-----------------------------------------------------------------------------
(* Segments as a partition (SpecSeg)                                       *)

\* the points of all segments, in order
AllSegmentPoints == Flatten(out.result)

\* C24: the segments of a series that is not empty, one after the other, are
\* the points of the series in ascending order of their keys: every point is
\* in exactly one segment, and no segment is empty.
C24_SegmentsPartitionSorted ==
    (Segmented /\ input.points # <<>>) =>
        /\ Len(AllSegmentPoints) = Len(input.points)
        /\ \A i \in 1..Len(input.points) :
               Cardinality({j \in 1..Len(AllSegmentPoints) : AllSegmentPoints[j] = input.points[i]}) = 1
        /\ \A j \in 1..(Len(AllSegmentPoints) - 1) :
               ~CellLess(AllSegmentPoints[j + 1].x, AllSegmentPoints[j].x)
        /\ \A s \in 1..Len(out.result) : out.result[s] # <<>>

\* a series given in descending order was cut into three segments or more
C24_Witness ==
    /\ Segmented
    /\ Len(out.result) >= 3
    /\ Len(input.points) >= 2
    /\ CellLess(input.points[2].x, input.points[1].x)

-----------------------------------------------------------------------------
(* Zero-hiding in the bar chart (SpecBuild)                                *)

\* the x values at which a trace has a bar
BarsAt(trace) == {trace.points[j].x : j \in 1..Len(trace.points)}

\* under zero-hiding a trace has a bar at an x value iff the aggregated value
\* of its metric there is not zero
OmitsExactlyZeros(o) ==
    \A i \in 1..Len(o.traces) :
        LET result == aggregate_metric(Self, data, o.traces[i].metric, <<o.x_axis>>)
        IN \A r \in 1..Len(result) :
               (result[r].key[1] \in BarsAt(o.traces[i])) <=> NonZero(result[r].value)

\* C25: with zero-hiding on, the bar chart omits the bar of a metric at an x
\* value iff the aggregated value of the metric at that x value is zero, in
\* charts of one metric and in charts of several metrics, normalised or not.
C25_BarOmitsExactlyZeros ==
    (out.op = "bar" /\ out.err = "" /\ out.hide) => OmitsExactlyZeros(out)

\* the same for charts of one metric
BarOfOneMetricOmitsExactlyZeros ==
    (out.op = "bar" /\ out.err = "" /\ out.hide /\ Len(out.metric_list) = 1)
        => OmitsExactlyZeros(out)

-----------------------------------------------------------------------------
(* The format list of the manual conversion (Spec)                         *)

\* the formats of the list under which a value of the column parses
ParsingFormats(column) ==
    {k \in 1..Len(date_formats) : NotnaAny(ToDatetime(column, date_formats[k]))}

FirstParsingFormat(column) ==
    CHOOSE k \in ParsingFormats(column) : \A j \in ParsingFormats(column) : k <= j

\* C26: "Convert to Date" on a column whose values parse under some format of
\* the list, whatever its position, makes the column a date column that holds
\* the dates parsed with the first such format.
C26_FirstParsingFormatWins ==
    [][out'.op = "manual_convert" =>
          \A c \in ColSet(data) :
              (data'.col[c] # data.col[c] /\ ParsingFormats(data.col[c]) # {})
                  => /\ c \in date_columns'
                     /\ data'.col[c] =
                            ToDatetime(data.col[c], date_formats[FirstParsingFormat(data.col[c])])]_vars

\* the same for the columns that parse under the first format of the list
FirstFormatWins ==
    [][out'.op = "manual_convert" =>
          \A c \in ColSet(data) :
              (data'.col[c] # data.col[c] /\ 1 \in ParsingFormats(data.col[c]))
                  => /\ c \in date_columns'
                     /\ data'.col[c] = ToDatetime(data.col[c], date_formats[1])]_vars

-----------------------------------------------------------------------------
(* Zero-hiding as removal of points (SpecBuild)                            *)

\* the chart the same call builds without zero-hiding
Unhidden(o) ==
    IF o.op = "line"
    THEN LineChart(Self, data, FALSE, o.x_axis, o.metric_list[1], o.group_by,
                   IF Len(o.metric_list) = 2 THEN o.metric_list[2] ELSE NoGroup)
    ELSE IF o.op = "bar"
    THEN BarChart(Self, data, FALSE, o.x_axis, o.metric_list)
    ELSE HeatMap(Self, data, FALSE, o.x_axis, o.y_axis, o.metric_list[1])

\* every value of the chart is the value the chart without zero-hiding has
\* for the same metric, group and x value
OnlyRemovesPoints(o) ==
    \A i \in 1..Len(o.traces) : \A j \in 1..Len(o.traces[i].points) :
        o.traces[i].points[j].y # NaN =>
            \E k \in 1..Len(Unhidden(o).traces) :
                /\ Unhidden(o).traces[k].metric = o.traces[i].metric
                /\ Unhidden(o).traces[k].group = o.traces[i].group
                /\ \E l \in 1..Len(Unhidden(o).traces[k].points) :
                       /\ Unhidden(o).traces[k].points[l].x = o.traces[i].points[j].x
                       /\ Unhidden(o).traces[k].points[l].y = o.traces[i].points[j].y

\* C27: in the grouped and in the ungrouped line chart, in the bar chart and
\* in the heat map, for each metric and either aggregation method, a group
\* that is displayed with zero-hiding on shows the aggregated value it shows
\* with zero-hiding off.
C27_ZeroHidingOnlyRemovesPoints ==
    (out.op \in {"line", "bar", "heat"} /\ out.err = "" /\ out.hide) => OnlyRemovesPoints(out)

\* the same for the grouped line chart and for the bar chart of one metric
GroupedLineOnlyRemovesPoints ==
    (out.op = "line" /\ out.group_by # NoGroup /\ out.err = "" /\ out.hide)
        => OnlyRemovesPoints(out)
BarOfOneMetricOnlyRemovesPoints ==
    (out.op = "bar" /\ Len(out.metric_list) = 1 /\ out.err = "" /\ out.hide)
        => OnlyRemovesPoints(out)
\* the same for each of the other charts
UngroupedLineOnlyRemovesPoints ==
    (out.op = "line" /\ out.group_by = NoGroup /\ out.err = "" /\ out.hide)
        => OnlyRemovesPoints(out)
HeatMapOnlyRemovesPoints ==
    (out.op = "heat" /\ out.err = "" /\ out.hide) => OnlyRemovesPoints(out)
BarOnlyRemovesPoints ==
    (out.op = "bar" /\ out.err = "" /\ out.hide) => OnlyRemovesPoints(out)

-----------------------------------------------------------------------------
(* The manual conversion across passes (SpecApp)                           *)

\* "Convert to Date" has just converted a column and called st.rerun(): the
\* pass was ended after its load, and the next pass is about to start
JustConverted == pc = "run" /\ out.op = "load_data" /\ date_columns # {}

\* C28: after a successful manual "Convert to Date" of a column, the pass
\* that follows the rerun has the column in date_columns with temporal
\* values.
C28_ConversionSurvivesRerun ==
    [][JustConverted =>
          \A c \in date_columns : c \in date_columns' /\ data'.col[c].dtype = "dt"]_vars

\* the conversion itself: the pass that converts has the column as a date column
ConversionMakesDateColumn ==
    JustConverted => \A c \in date_columns : data.col[c].dtype = "dt"

-----------------------------------------------------------------------------
(* The line chart under zero-hiding, by x axis (SpecBuild)                 *)

\* C29: a line chart built with zero-hiding on returns a chart without
\* raising for every x axis the settings offer: the date columns and the
\* other dimensions, whatever the type of their values.
C29_HiddenLineNeverRaises ==
    (out.op = "line" /\ out.hide) => out.err = ""

\* the same for the date columns
HiddenLineOverDatesNeverRaises ==
    (out.op = "line" /\ out.hide /\ out.x_axis \in date_columns) => out.err = ""

\* without zero-hiding the line chart is built for either kind of x axis
PlainLineNeverRaises ==
    (out.op = "line" /\ ~out.hide) => out.err = ""

-----------------------------------------------------------------------------
(* Pass study: one run of main() over a loaded report, section by section, *)
(* for each chart type.  session holds st.session_state and the widget     *)
(* values, user holds the local names main() has bound in the pass, hist   *)
(* the sections the pass has finished.  The widgets that are not modelled  *)
(* keep their first option: the x axis of the line chart is the date       *)
(* column, its metric the first metric, and no filter is chosen.           *)

ChartTypes == {"Line Chart", "Bar Chart", "Heat Map"}

\* the selections of the "Configure Metrics" panel
OverviewSelections == {<<>>, <<N_clicks>>}

\* st.session_state.get(key, default)
SessionGet(key, default) == IF key \in DOMAIN session THEN session[key] ELSE default

\* a local name of main() is bound to a value
Bind(locals, name, value) == DictUpdate(locals, (name :> value))

InitPass ==
    /\ data = NewProcessor.data
    /\ metrics = NewProcessor.metrics
    /\ dimensions = NewProcessor.dimensions
    /\ date_columns = NewProcessor.date_columns
    /\ metric_types = NewProcessor.metric_types
    /\ aggregation_types = NewProcessor.aggregation_types
    /\ input \in {BuildFile(rows) : rows \in BuildRowSeqs(MaxBuildRows) \ {<<>>}}
    /\ out = NoOut
    /\ hist = <<>>
    /\ pc = "run"
    /\ uploaded_file = "build"
    /\ session = [chart_type |-> "Line Chart", hide_zero_values |-> FALSE, line_group |-> NoGroup]
    /\ user = <<>>

\* an interaction starts a pass: no local name is bound yet
StartPass ==
    /\ pc = "idle"
    /\ pc' = "run"
    /\ hist' = <<>>
    /\ user' = <<>>
    /\ UNCHANGED <<tmVars, input, out, uploaded_file>>

\* chart_type = st.sidebar.selectbox("Select Chart Type", ...)
SelectChartType(chart_type) ==
    /\ StartPass
    /\ session' = [session EXCEPT !.chart_type = chart_type]

\* style.hide_zero_values = st.checkbox("Hide Zero Values", ...)
TickHideZero(value) ==
    /\ StartPass
    /\ session' = [session EXCEPT !.hide_zero_values = value]

\* st.selectbox("Group By (Optional)", ["None"] + non_date_dimensions)
SelectLineGroup(group_by) ==
    /\ StartPass
    /\ session.chart_type = "Line Chart"
    /\ session' = [session EXCEPT !.line_group = group_by]

\* the checkboxes of "Configure Metrics"
ConfigureMetrics(selection) ==
    /\ StartPass
    /\ session' = DictUpdate(session, ("selected_overview_metrics" :> selection))

\* an unhandled exception ends the pass where it is raised
Unhandled(section, err) ==
    /\ out' = [op |-> section, err |-> err]
    /\ pc' = "idle"
    /\ UNCHANGED <<hist, user>>

\* a section of the pass is done
Done(section, next, locals) ==
    /\ out' = [op |-> section, err |-> ""]
    /\ hist' = Append(hist, section)
    /\ user' = locals
    /\ pc' = next

\* data_processor = DataProcessor(); data_processor.load_data(uploaded_file)
PassLoadFile ==
    /\ pc = "run"
    /\ SetSelf(load_data(NewProcessor, input))
    /\ Done("load_data", "loaded", user)
    /\ UNCHANGED <<input, uploaded_file, session>>

\* filtered_data = data_processor.filter_data(filters, date_range_filters)
PassFilter ==
    /\ pc = "loaded"
    /\ Done("filter_data", "filtered", Bind(user, "filtered_data", filter_data(Self, <<>>, <<>>)))
    /\ UNCHANGED <<tmVars, input, uploaded_file, session>>

\* the branch of the selected chart type: the names it binds and the chart
\* it builds
PassBuildChart ==
    /\ pc = "filtered"
    /\ LET filtered_data == user["filtered_data"].table
           hide == session.hide_zero_values
       IN IF session.chart_type = "Line Chart"
          THEN LET built == LineChart(Self, filtered_data, hide, N_Date, metrics[1],
                                      session.line_group, NoGroup)
               IN IF built.err # "" THEN Unhandled("chart", built.err)
                  ELSE Done("chart", "charted",
                            Bind(Bind(Bind(Bind(user, "x_axis", N_Date), "y_axis", metrics[1]),
                                      "secondary_y_axis", NoGroup),
                                 "group_by", session.line_group))
          ELSE IF session.chart_type = "Bar Chart"
          THEN LET built == BarChart(Self, filtered_data, hide, N_Campaign, <<metrics[1]>>)
               IN IF built.err # "" THEN Unhandled("chart", built.err)
                  ELSE Done("chart", "charted",
                            Bind(Bind(user, "x_axis", N_Campaign), "y_metrics", <<metrics[1]>>))
          ELSE LET built == HeatMap(Self, filtered_data, hide, N_Date, N_Campaign, metrics[1])
               IN IF built.err # "" THEN Unhandled("chart", built.err)
                  ELSE Done("chart", "charted",
                            Bind(Bind(Bind(user, "x_axis", N_Date), "y_axis", N_Campaign),
                                 "metric", metrics[1]))
    /\ UNCHANGED <<tmVars, input, uploaded_file, session>>

\* the overview: with metrics to display, main() reads its local group_by
\* to choose between the grouped and the plain overview
PassOverviewMetrics ==
    /\ pc = "charted"
    /\ LET display_metrics == SessionGet("selected_overview_metrics", metrics)
       IN IF display_metrics = <<>> THEN Done("overview", "overviewed", user)
          ELSE IF "group_by" \notin DOMAIN user THEN Unhandled("overview", "UnboundLocalError")
          ELSE Done("overview", "overviewed",
                    Bind(user, "overview_metrics",
                         [i \in 1..Len(display_metrics) |->
                             LET cells == user["filtered_data"].table.col[display_metrics[i]].cells
                             IN IF get_aggregation_type(Self, display_metrics[i]) = "average"
                                THEN MeanCells(cells) ELSE Val(SumCells(cells), 1)]))
    /\ UNCHANGED <<tmVars, input, uploaded_file, session>>

\* st.dataframe(filtered_data.head()); the pass ends
PassPreview ==
    /\ pc = "overviewed"
    /\ Done("preview", "idle", user)
    /\ UNCHANGED <<tmVars, input, uploaded_file, session>>

NextPass ==
    \/ \E chart_type \in ChartTypes : SelectChartType(chart_type)
    \/ \E value \in BOOLEAN : TickHideZero(value)
    \/ \E group_by \in {NoGroup, N_Campaign} : SelectLineGroup(group_by)
    \/ \E selection \in OverviewSelections : ConfigureMetrics(selection)
    \/ PassLoadFile
    \/ PassFilter
    \/ PassBuildChart
    \/ PassOverviewMetrics
    \/ PassPreview

SpecPass == InitPass /\ [][NextPass]_vars

\* a pass has ended, by reaching the end of main() or by an exception
PassEnded == pc = "idle"

\* C30: for each chart type, a pass over a loaded table with at least one
\* metric selected for the overview runs from the filtering through the
\* chart and the overview to the data preview without an unhandled error.
C30_PassReachesPreview ==
    (PassEnded /\ data.loaded /\ SessionGet("selected_overview_metrics", metrics) # <<>>)
        => (out.op = "preview" /\ out.err = "")

\* the same for the line chart
LinePassReachesPreview ==
    (PassEnded /\ session.chart_type = "Line Chart") => (out.op = "preview" /\ out.err = "")

\* and for the other chart types when no metric is selected for the overview
PassWithoutOverviewReachesPreview ==
    (PassEnded /\ SessionGet("selected_overview_metrics", metrics) = <<>>)
        => (out.op = "preview" /\ out.err = "")

====
